---- MODULE Spec2Model ----
(***************************************************************************)
(* Model of the import command of openbao-secrets-importer: runImport, the *)
(* parallel engine (runParallelImport, importSecret), the interactive      *)
(* engine (runInteractiveImport, promptImport) and the Target they write   *)
(* to (the OpenBao client's SecretExists, WriteSecret and Health).         *)
(*                                                                         *)
(* Strings that the code takes apart (paths, the path prefix) are          *)
(* sequences of one-character strings.  A secret's data map is <<>> for a  *)
(* nil map and <<k>> for a non-nil one; the k-th secret of a validated     *)
(* stream carries <<k>>, so k identifies the secret through the run.       *)
(***************************************************************************)
EXTENDS Integers, Sequences, FiniteSets, TLC

\* ------------------------------------------------------------------ bounds
\* Longest secret stream of an export file.
MaxN == 2
\* Largest value of the --parallelism flag.
MaxW == 2
\* How many times in a row the command is run on the same file and Target.
MaxRuns == 2
\* Longest value of the --path-prefix flag.
MaxPrefixLen == 3
\* Longest secret stream of an interactive import.
MaxStream == 4
\* Most --include patterns, and most --exclude patterns, of a command.
MaxPatterns == 2

\* --------------------------------------------------------------- constants
Version == "1.0"
ConfirmYes == "Yes"
ConfirmNo == "No"
ConfirmYesToAll == "Yes to all remaining"
ConfirmNoToAll == "No to all remaining"
ConfirmAbort == "Abort import"
ImportConfirmation ==
    {ConfirmYes, ConfirmNo, ConfirmYesToAll, ConfirmNoToAll, ConfirmAbort}

\* Error values are chains of messages, outermost first: NoError is Go's nil
\* error and Wrap is fmt.Errorf("msg: %w", err).
NoError == <<>>
Wrap(msg, err) == <<msg>> \o err
ErrGet == "kv.Get failed"
ErrPut == "kv.Put failed"
ErrSys == "sys/health failed"
ErrCheckHealth == "failed to check OpenBao health"
ErrSealed == "OpenBao is sealed"
ErrSurvey == "survey.AskOne failed"
ErrConfig == "invalid client configuration"
ErrFormat == "invalid header format"
ErrFlags == "--overwrite-all and --interactive cannot be used together"
ErrValidate == "failed to read/validate export file"
ErrHeader == "invalid header"
ErrNewClient == "failed to create OpenBao client"
ErrHealth == "failed to connect to OpenBao"
ErrPrompt == "prompt failed"
ErrFailed == "secrets failed to import"
ErrCheckExistence == "failed to check existence"
ErrWrite == "failed to write secret"
ErrCheckSecret == "failed to check secret"

\* ------------------------------------------------------------------ inputs
Paths == {<<"a">>, <<"b">>}
RawPrefixes == {<<"/", "p">>}

\* A secret of an export file: source.Secret, without the metadata the engine
\* never reads.
Secret(path, data) == [Path |-> path, Data |-> data]

\* The stream of n secrets with the given paths, the k-th carrying data <<k>>.
StreamOf(paths) == [k \in 1..Len(paths) |-> Secret(paths[k], <<k>>)]

PathSeqs(n) == [1..n -> Paths]

ValidStreams == UNION {{StreamOf(ps) : ps \in PathSeqs(n)} : n \in 0..MaxN}

\* Streams that Validate rejects: an empty path or a nil data map.
BadStreams ==
    { <<Secret(<<>>, <<1>>)>>, <<Secret(<<"a">>, <<>>)>> }

ExportFile(version, srcName, exportedAt, total, secrets) ==
    [Version |-> version,
     Metadata |-> [Source |-> srcName, ExportedAt |-> exportedAt,
                   TotalSecrets |-> total],
     Secrets |-> secrets]

\* The export files the command is run on: every valid file over the valid
\* streams, and one file for each reason Validate has to reject a file.
ExportFiles ==
    {ExportFile(Version, "aws", 1, Len(s), s) : s \in ValidStreams}
    \cup {ExportFile(Version, "aws", 1, Len(s), s) : s \in BadStreams}
    \cup {ExportFile(v, "aws", 1, 0, <<>>) : v \in {"", "0.9"}}
    \cup {ExportFile(Version, "", 1, 0, <<>>),
          ExportFile(Version, "aws", 0, 0, <<>>),
          ExportFile(Version, "aws", 1, 1, <<>>)}

\* The values of --path-prefix: every string of '/' and 'p' up to the bound.
PrefixChars == {"/", "p"}
PrefixStrings == UNION {[1..n -> PrefixChars] : n \in 0..MaxPrefixLen}

\* The streams of an interactive import: every stream over the two paths.
InteractiveStreams ==
    UNION {{StreamOf(ps) : ps \in PathSeqs(n)} : n \in 0..MaxStream}
InteractiveFiles ==
    {ExportFile(Version, "aws", 1, Len(s), s) : s \in InteractiveStreams}

\* The secret names of a source, and the glob patterns of --include and
\* --exclude: match all, a one-level wildcard, a literal, a wildcard below a
\* directory.
Names == <<<<"a">>, <<"a", "b">>, <<"a", "/", "b">>>>
Listings == {<<>>, Names}
GlobPatterns ==
    {<<"*", "*">>, <<"a", "*">>, <<"a">>, <<"a", "/", "*">>}
PatternLists == UNION {[1..n -> GlobPatterns] : n \in 0..MaxPatterns}

\* --------------------------------------------------------------- variables
VARIABLES
    \* the flags of the import command and the file it is given
    importOverwriteAll, importInteractive, importSkipExisting, importDryRun,
    importParallelism, importPathPrefix, exportFile,
    \* the context of the run: whether it is cancelled, and the secrets that
    \* were not yet sent to the work queue when it was
    ctxDone, unsent,
    \* the list and export commands: their flags, the source's listing, and
    \* what each has selected
    listIncludes, listExcludes, exportIncludes, exportExcludes, exportDryRun,
    secretList, listpc, listInfos, exportpc, filteredPaths, exportIdx,
    outFile, fetched, errCount,
    \* Source.Export: the position of its goroutine and of its workers, the
    \* three channels, the context, and what was fetched, delivered and lost
    adapterpc, srcInfos, srcIdx, srcWorkers, srcWg, pathChanClosed,
    secretChanClosed, errChanClosed, errChan, srcCtxDone, gets, delivered,
    received, dropped, panicked,
    \* runImport
    pc, runErr, export, pathPrefix, planned, engine, runs,
    \* the Target: the KV v2 store and the calls made on it
    store, store0, healthCalls, healthErr, calls,
    \* runParallelImport
    imported, skipped, failed, wg, work, workClosed, results, resultsClosed,
    wpc, wsecret, wresult, sendIdx, sendpc, waitpc, processed, progress,
    \* runInteractiveImport
    i, confirmAll, skipAll, exists, prompts

ctxVars == <<ctxDone, unsent>>
filterFlags ==
    <<listIncludes, listExcludes, exportIncludes, exportExcludes, exportDryRun,
      secretList>>
listVars == <<listpc, listInfos>>
exportVars ==
    <<exportpc, filteredPaths, exportIdx, outFile, fetched, errCount>>
adapterVars ==
    <<adapterpc, srcInfos, srcIdx, srcWorkers, srcWg, pathChanClosed,
      secretChanClosed, errChanClosed, errChan, srcCtxDone, gets, delivered,
      received, dropped, panicked>>
configVars ==
    <<importOverwriteAll, importInteractive, importDryRun, importParallelism,
      importPathPrefix, exportFile, ctxVars, filterFlags, listVars,
      exportVars, adapterVars>>
mainVars == <<pc, runErr, export, pathPrefix, planned, engine, runs>>
targetVars == <<store, store0, healthCalls, healthErr, calls>>
counterVars == <<imported, skipped, failed>>
chanVars == <<wg, work, workClosed, results, resultsClosed>>
workerVars == <<wpc, wsecret, wresult>>
parallelVars == <<chanVars, workerVars, sendIdx, sendpc, waitpc, processed, progress>>
interactiveVars == <<i, confirmAll, skipAll, exists, prompts>>
importVars ==
    <<importOverwriteAll, importInteractive, importDryRun, importParallelism,
      importPathPrefix, exportFile, ctxVars, importSkipExisting, mainVars,
      targetVars, counterVars, parallelVars, interactiveVars>>
vars ==
    <<configVars, importSkipExisting, mainVars, targetVars, counterVars,
      parallelVars, interactiveVars>>

\* ---------------------------------------------------------- pure functions
Last(s) == s[Len(s)]
HasSuffix(s, c) == Len(s) > 0 /\ s[Len(s)] = c
TrimPrefix(s, c) == IF Len(s) > 0 /\ s[1] = c THEN Tail(s) ELSE s

normalizePathPrefix(prefix) ==
    IF prefix = <<>> \/ prefix = <<"/">>
    THEN <<>>
    ELSE LET slashed == IF ~HasSuffix(prefix, "/")
                        THEN Append(prefix, "/")
                        ELSE prefix
         IN  TrimPrefix(slashed, "/")

\* ExportFile.Validate: the error it returns, NoError for a valid file.
BadSecretAt(e, k) == e.Secrets[k].Path = <<>> \/ e.Secrets[k].Data = <<>>

\* A Validate without the loop over the secrets.
ValidateNoSecretsCheck(e) ==
    IF e.Version = "" THEN <<"missing required field: version">>
    ELSE IF e.Version # Version THEN <<"unsupported schema version">>
    ELSE IF e.Metadata.Source = ""
         THEN <<"missing required field: metadata.source">>
    ELSE IF e.Metadata.ExportedAt = 0
         THEN <<"missing required field: metadata.exported_at">>
    ELSE IF e.Metadata.TotalSecrets # Len(e.Secrets)
         THEN <<"metadata.total_secrets does not match actual secret count">>
    ELSE NoError

Validate(e) ==
    IF e.Version = "" THEN <<"missing required field: version">>
    ELSE IF e.Version # Version THEN <<"unsupported schema version">>
    ELSE IF e.Metadata.Source = ""
         THEN <<"missing required field: metadata.source">>
    ELSE IF e.Metadata.ExportedAt = 0
         THEN <<"missing required field: metadata.exported_at">>
    ELSE IF \E k \in 1..Len(e.Secrets) : BadSecretAt(e, k)
         THEN <<"secret: missing required field">>
    ELSE IF e.Metadata.TotalSecrets # Len(e.Secrets)
         THEN <<"metadata.total_secrets does not match actual secret count">>
    ELSE NoError

\* destPath := pathPrefix + secret.Path
DestPath(secret) == pathPrefix \o secret.Path

\* The position in the stream of a secret of a validated stream.
SecretId(secret) == secret.Data[1]

N == Len(export.Secrets)
Ids == 1..N

\* getSecretKeys: the key names of a data map.  The map of the k-th secret
\* is carried as the tuple of its key names, the one key k.
getSecretKeys(data) == [n \in 1..Len(data) |-> data[n]]

\* ImportResult
ImportResult(path, success, skip, err) ==
    [Path |-> path, Success |-> success, Skipped |-> skip, Error |-> err]

\* importSecret's branches: the test that guards the existence check, and the
\* result it builds after each call.
SkipCheck == importSkipExisting /\ ~importOverwriteAll

ResultExistsFailed(destPath, err) ==
    ImportResult(destPath, FALSE, FALSE, Wrap(ErrCheckExistence, err))
\* A skipped result without `result.Skipped = true`.
ResultSkippedNotFlagged(destPath) == ImportResult(destPath, TRUE, FALSE, NoError)
ResultSkipped(destPath) == ImportResult(destPath, TRUE, TRUE, NoError)
ResultWriteFailed(destPath, err) == ImportResult(destPath, FALSE, FALSE, err)
\* An imported result without `result.Success = true`.
ResultImportedNotFlagged(destPath) ==
    ImportResult(destPath, FALSE, FALSE, NoError)
ResultImported(destPath) == ImportResult(destPath, TRUE, FALSE, NoError)

\* ------------------------------------------------------------- path filter
\* glob.Compile(p, '/') and Glob.Match: '**' matches any run of characters,
\* '*' any run of characters other than the separator, any other character
\* itself.
RECURSIVE GlobMatch(_, _)
GlobMatch(p, s) ==
    IF p = <<>> THEN s = <<>>
    ELSE IF Len(p) >= 2 /\ p[1] = "*" /\ p[2] = "*"
    THEN \E n \in 0..Len(s) :
            GlobMatch(SubSeq(p, 3, Len(p)), SubSeq(s, n + 1, Len(s)))
    ELSE IF p[1] = "*"
    THEN \E n \in 0..Len(s) :
            /\ \A m \in 1..n : s[m] # "/"
            /\ GlobMatch(Tail(p), SubSeq(s, n + 1, Len(s)))
    ELSE s # <<>> /\ s[1] = p[1] /\ GlobMatch(Tail(p), Tail(s))

\* NewPathFilter: the compiled includes and excludes.
NewPathFilter(includePatterns, excludePatterns) ==
    [includes |-> includePatterns, excludes |-> excludePatterns]

\* The loop `for _, g := range globs { if g.Match(path) { return ... } }`:
\* whether it returns from inside.
RECURSIVE AnyMatch(_, _)
AnyMatch(globs, path) ==
    IF globs = <<>> THEN FALSE
    ELSE IF GlobMatch(Head(globs), path) THEN TRUE
    ELSE AnyMatch(Tail(globs), path)

\* A Matches that looks at the includes before the excludes.
MatchesIncludesFirst(f, path) ==
    IF Len(f.includes) = 0 THEN ~AnyMatch(f.excludes, path)
    ELSE IF AnyMatch(f.includes, path) THEN TRUE
    ELSE FALSE

\* PathFilter.Matches.
Matches(f, path) ==
    IF AnyMatch(f.excludes, path) THEN FALSE
    ELSE IF Len(f.includes) = 0 THEN TRUE
    ELSE IF AnyMatch(f.includes, path) THEN TRUE
    ELSE FALSE

\* matchSimpleGlob, the matcher of the list command's excludes.
matchSimpleGlob(pattern, s) ==
    IF pattern = <<"*", "*">> THEN TRUE
    ELSE IF pattern = s THEN TRUE
    ELSE FALSE

\* gobFilter.Matches over the one pattern that matchGlob gives it.
matchGlob(pattern, path) == matchSimpleGlob(pattern, path)

\* Source.List(patterns): the names of the listing that the include filter
\* accepts, in the listing's order.
SourceList(patterns) ==
    LET pathFilter == NewPathFilter(patterns, <<>>)
        Keep(name) == Matches(pathFilter, name)
    IN  SelectSeq(secretList, Keep)

\* `patterns := includes; if len(patterns) == 0 { patterns = {"**"} }`
ListPatterns(includes) ==
    IF Len(includes) = 0 THEN <<<<"*", "*">>>> ELSE includes

\* ------------------------------------------------------------- the Target
AllDest == {normalizePathPrefix(r) \o p : r \in RawPrefixes, p \in Paths}
Absent == <<>>
Preexisting == <<0>>
\* The Targets a run starts on: no secret, the one at "a", or both.  (The one
\* at "b" alone is the one at "a" alone with the two paths renamed.)
InitialStores ==
    { [d \in AllDest |-> IF Last(d) \in held THEN Preexisting ELSE Absent] :
        held \in {{}, {"a"}, {"a", "b"}} }

\* Client.SecretExists(path): what it may return.  "secret not found" is
\* (false, nil); any other failure of the read is (false, error).
SecretExistsReturns(path) ==
    { [exists |-> store[path] # Absent, err |-> NoError],
      [exists |-> FALSE, err |-> Wrap(ErrCheckSecret, <<ErrGet>>)] }

\* Client.WriteSecret(path, data): nil after the put, or the put's error, the
\* store then left as it was.
WriteSecretReturns == {NoError, Wrap(ErrWrite, <<ErrPut>>)}
StoreAfterWrite(path, data, err) ==
    IF err = NoError THEN [store EXCEPT ![path] = data] ELSE store

\* Client.Health: nil, or the error of an unreachable or of a sealed server.
HealthReturns == {NoError, Wrap(ErrCheckHealth, <<ErrSys>>), <<ErrSealed>>}

\* The record of the Target calls made for the k-th secret and of what the
\* engine did with it.
NoCalls == [taken |-> 0, exists |-> <<>>, writes |-> <<>>, results |-> <<>>]
LogTaken(k) == [calls EXCEPT ![k].taken = @ + 1]
LogExists(k, ret) == [calls EXCEPT ![k].exists = Append(@, ret)]
LogWrite(k, err) == [calls EXCEPT ![k].writes = Append(@, err)]
LogResult(k, r) == [calls EXCEPT ![k].results = Append(@, r)]

\* -------------------------------------------------------------------- Init
\* The start of the command, whatever its flags: nothing has run, and the
\* Target holds what it held before.
\* Source.Export is not called.
InitNoSourceExport ==
    /\ adapterpc = "off"
    /\ srcInfos = <<>> /\ srcIdx = 0
    /\ srcWorkers = <<>> /\ srcWg = 0
    /\ pathChanClosed = FALSE
    /\ secretChanClosed = FALSE /\ errChanClosed = FALSE
    /\ errChan = <<>>
    /\ srcCtxDone = FALSE
    /\ gets = <<>> /\ delivered = <<>> /\ received = <<>>
    /\ dropped = 0
    /\ panicked = {}

\* The list and export commands are not run.
InitNoList ==
    /\ InitNoSourceExport
    /\ listIncludes = <<>> /\ listExcludes = <<>>
    /\ exportIncludes = <<>> /\ exportExcludes = <<>>
    /\ exportDryRun = FALSE
    /\ secretList = <<>>
    /\ listpc = "off" /\ listInfos = <<>>
    /\ exportpc = "off" /\ filteredPaths = <<>> /\ exportIdx = 0
    /\ outFile = ExportFile("", "", 0, 0, <<>>) /\ fetched = <<>>
    /\ errCount = 0

InitRun ==
    /\ pc = "runImport"
    /\ ctxDone = FALSE /\ unsent = {}
    /\ runErr = NoError
    /\ export = ExportFile("", "", 0, 0, <<>>)
    /\ pathPrefix = <<>>
    /\ planned = <<>>
    /\ engine = "none"
    /\ runs = <<>>
    /\ store \in InitialStores
    /\ store0 = store
    /\ healthCalls = 0
    /\ healthErr = NoError
    /\ calls = <<>>
    /\ imported = 0 /\ skipped = 0 /\ failed = 0
    /\ wg = 0
    /\ work = <<>> /\ workClosed = FALSE
    /\ results = <<>> /\ resultsClosed = FALSE
    /\ wpc = <<>> /\ wsecret = <<>> /\ wresult = <<>>
    /\ sendIdx = 0 /\ sendpc = "off" /\ waitpc = "off"
    /\ processed = 0
    /\ progress = <<>>
    /\ i = 0 /\ confirmAll = FALSE /\ skipAll = FALSE /\ exists = FALSE
    /\ prompts = <<>>

Init ==
    /\ importOverwriteAll \in BOOLEAN
    /\ importInteractive \in BOOLEAN
    /\ importSkipExisting \in BOOLEAN
    /\ importDryRun \in BOOLEAN
    /\ importParallelism \in 0..MaxW
    /\ importPathPrefix \in RawPrefixes
    /\ exportFile \in ExportFiles
    /\ InitRun
    /\ InitNoList

\* --------------------------------------------------------------- runImport
Return(err) == pc' = "returned" /\ runErr' = err

\* A flag check that lets --overwrite-all through with --interactive.
ValidateFlagsNoConflictCheck ==
    /\ pc = "runImport"
    /\ pc' = "validateFile"
    /\ runErr' = runErr
    /\ importSkipExisting' =
          (IF importOverwriteAll THEN FALSE ELSE importSkipExisting)
    /\ UNCHANGED <<configVars, export, pathPrefix, planned, engine, runs,
                   targetVars,
                   counterVars, parallelVars, interactiveVars>>

\* Lines 311-318: reject --overwrite-all with --interactive; --overwrite-all
\* turns --skip-existing off.
ValidateFlags ==
    /\ pc = "runImport"
    /\ IF importOverwriteAll /\ importInteractive
       THEN /\ Return(<<ErrFlags>>)
            /\ UNCHANGED importSkipExisting
       ELSE /\ pc' = "validateFile"
            /\ runErr' = runErr
            /\ importSkipExisting' =
                  (IF importOverwriteAll THEN FALSE ELSE importSkipExisting)
    /\ UNCHANGED <<configVars, export, pathPrefix, planned, engine, runs,
                   targetVars,
                   counterVars, parallelVars, interactiveVars>>

\* Lines 320-325: schema.ValidateFile.
ValidateFile ==
    /\ pc = "validateFile"
    /\ IF Validate(exportFile) # NoError
       THEN /\ Return(Wrap(ErrValidate, Validate(exportFile)))
            /\ UNCHANGED <<export, calls>>
       ELSE /\ pc' = "parseHeaders"
            /\ runErr' = runErr
            /\ export' = exportFile
            /\ calls' = [k \in 1..Len(exportFile.Secrets) |-> NoCalls]
    /\ UNCHANGED <<configVars, importSkipExisting, pathPrefix, planned, engine,
                   runs, store,
                   store0, healthCalls, healthErr, counterVars, parallelVars,
                   interactiveVars>>

\* A runImport without the `if importDryRun` branch.
ParseHeadersNoDryRun ==
    /\ pc = "parseHeaders"
    /\ \E ok \in BOOLEAN :
          IF ~ok
          THEN /\ Return(Wrap(ErrHeader, <<ErrFormat>>))
               /\ UNCHANGED pathPrefix
          ELSE /\ pathPrefix' = normalizePathPrefix(importPathPrefix)
               /\ pc' = "newClient"
               /\ runErr' = runErr
    /\ UNCHANGED <<configVars, importSkipExisting, export, planned, engine, runs,
                   targetVars,
                   counterVars, parallelVars, interactiveVars>>

\* Lines 329-340: openbao.ParseHeaders on the --header flags, then the prefix
\* is normalised and a dry run branches off.
ParseHeaders ==
    /\ pc = "parseHeaders"
    /\ \E ok \in BOOLEAN :
          IF ~ok
          THEN /\ Return(Wrap(ErrHeader, <<ErrFormat>>))
               /\ UNCHANGED pathPrefix
          ELSE /\ pathPrefix' = normalizePathPrefix(importPathPrefix)
               /\ pc' = IF importDryRun THEN "runDryRun" ELSE "newClient"
               /\ runErr' = runErr
    /\ UNCHANGED <<configVars, importSkipExisting, export, planned, engine, runs,
                   targetVars,
                   counterVars, parallelVars, interactiveVars>>

\* Lines 383-396: print every secret's path, destination path and keys.
runDryRun ==
    /\ pc = "runDryRun"
    /\ planned' = [k \in Ids |-> <<export.Secrets[k].Path,
                                   DestPath(export.Secrets[k]),
                                   getSecretKeys(export.Secrets[k].Data)>>]
    /\ Return(NoError)
    /\ engine' = "runDryRun"
    /\ UNCHANGED <<configVars, importSkipExisting, export, pathPrefix, runs,
                   targetVars, counterVars, parallelVars, interactiveVars>>

\* Lines 342-354: openbao.NewClient.
NewClient ==
    /\ pc = "newClient"
    /\ \E ok \in BOOLEAN :
          IF ok THEN pc' = "health" /\ runErr' = runErr
                ELSE Return(Wrap(ErrNewClient, <<ErrConfig>>))
    /\ UNCHANGED <<configVars, importSkipExisting, export, pathPrefix, planned,
                   engine, runs,
                   targetVars, counterVars, parallelVars, interactiveVars>>

\* A health probe whose failure does not end the run.
HealthFailureIgnored ==
    /\ pc = "health"
    /\ healthCalls' = healthCalls + 1
    /\ \E err \in HealthReturns :
          /\ healthErr' = err
          /\ pc' = IF importInteractive THEN "runInteractiveImport"
                                        ELSE "runParallelImport"
          /\ runErr' = runErr
    /\ UNCHANGED <<configVars, importSkipExisting, export, pathPrefix, planned,
                   engine, runs,
                   store, store0, calls, counterVars, parallelVars,
                   interactiveVars>>

\* Lines 356-367: client.Health, then the engine the flags select.
Health ==
    /\ pc = "health"
    /\ healthCalls' = healthCalls + 1
    /\ \E err \in HealthReturns :
          /\ healthErr' = err
          /\ IF err = NoError
             THEN /\ pc' = IF importInteractive THEN "runInteractiveImport"
                                                ELSE "runParallelImport"
                  /\ runErr' = runErr
             ELSE Return(Wrap(ErrHealth, err))
    /\ UNCHANGED <<configVars, importSkipExisting, export, pathPrefix, planned,
                   engine, runs,
                   store, store0, calls, counterVars, parallelVars,
                   interactiveVars>>


\* ------------------------------------------------------- runParallelImport
\* The goroutines run while the main goroutine is inside runParallelImport;
\* when it returns the command exits and takes them with it.
Running == pc = "collect"

\* The capacity of the work and result channels: len(export.Secrets).
Cap == N

\* The worker loop `for i := 0; i < importParallelism; i++`.
Workers == 1..importParallelism

\* One result is counted in exactly one bucket (lines 553-560).
CountsSkipped(r) == r.Skipped
CountsImported(r) == ~r.Skipped /\ r.Success
CountsFailed(r) == ~r.Skipped /\ ~r.Success

\* Lines 511-549: the counters, the two channels, and the three `go`
\* statements.  No goroutine can act on a channel before it is made and none
\* has anything to receive before the sender runs, so the starts are one step.
runParallelImport ==
    /\ pc = "runParallelImport"
    /\ pc' = "collect"
    /\ engine' = "runParallelImport"
    /\ imported' = 0 /\ skipped' = 0 /\ failed' = 0
    /\ work' = <<>> /\ workClosed' = FALSE
    /\ results' = <<>> /\ resultsClosed' = FALSE
    /\ wg' = Cardinality(Workers)
    /\ wpc' = [w \in Workers |-> "recv"]
    /\ wsecret' = [w \in Workers |-> <<>>]
    /\ wresult' = [w \in Workers |-> <<>>]
    /\ sendIdx' = 1 /\ sendpc' = "send"
    /\ waitpc' = "wait"
    /\ processed' = 0
    /\ progress' = <<>>
    /\ UNCHANGED <<configVars, importSkipExisting, runErr, export, pathPrefix,
                   planned, runs, targetVars, interactiveVars>>

\* Lines 538-541: `work <- secret` for the next secret of the stream.
SendWork ==
    /\ Running
    /\ sendpc = "send"
    /\ sendIdx <= N
    /\ Len(work) < Cap
    /\ work' = Append(work, export.Secrets[sendIdx])
    /\ sendIdx' = sendIdx + 1
    /\ UNCHANGED <<configVars, importSkipExisting, mainVars, targetVars,
                   counterVars, wg, workClosed, results, resultsClosed,
                   workerVars, sendpc, waitpc, processed, progress, interactiveVars>>

\* A sender that ends without close(work).
CloseWorkForgotten ==
    /\ Running
    /\ sendpc = "send"
    /\ sendIdx > N
    /\ workClosed' = workClosed
    /\ sendpc' = "done"
    /\ UNCHANGED <<configVars, importSkipExisting, mainVars, targetVars,
                   counterVars, wg, work, results, resultsClosed, workerVars,
                   sendIdx, waitpc, processed, progress, interactiveVars>>

\* Line 542: close(work).
CloseWork ==
    /\ Running
    /\ sendpc = "send"
    /\ sendIdx > N
    /\ workClosed' = TRUE
    /\ sendpc' = "done"
    /\ UNCHANGED <<configVars, importSkipExisting, mainVars, targetVars,
                   counterVars, wg, work, results, resultsClosed, workerVars,
                   sendIdx, waitpc, processed, progress, interactiveVars>>

\* A receive that leaves the secret at the head of the queue.
WorkerRecvKeepsHead(w) ==
    /\ Running
    /\ w \in Workers
    /\ wpc[w] = "recv"
    /\ work # <<>>
    /\ work' = work
    /\ wsecret' = [wsecret EXCEPT ![w] = <<Head(work)>>]
    /\ calls' = LogTaken(SecretId(Head(work)))
    /\ wpc' = [wpc EXCEPT ![w] = IF SkipCheck THEN "exists" ELSE "write"]
    /\ UNCHANGED <<configVars, importSkipExisting, mainVars, store, store0,
                   healthCalls, healthErr, counterVars, wg, workClosed, results,
                   resultsClosed, wresult, sendIdx, sendpc, waitpc, processed, progress,
                   interactiveVars>>

\* Line 530: `for secret := range work` receives the head of the queue.
WorkerRecv(w) ==
    /\ Running
    /\ w \in Workers
    /\ wpc[w] = "recv"
    /\ work # <<>>
    /\ work' = Tail(work)
    /\ wsecret' = [wsecret EXCEPT ![w] = <<Head(work)>>]
    /\ calls' = LogTaken(SecretId(Head(work)))
    /\ wpc' = [wpc EXCEPT ![w] = IF SkipCheck THEN "exists" ELSE "write"]
    /\ UNCHANGED <<configVars, importSkipExisting, mainVars, store, store0,
                   healthCalls, healthErr, counterVars, wg, workClosed, results,
                   resultsClosed, wresult, sendIdx, sendpc, waitpc, processed, progress,
                   interactiveVars>>

\* Lines 529-530: the range ends on the closed, drained queue; wg.Done().
WorkerExit(w) ==
    /\ Running
    /\ w \in Workers
    /\ wpc[w] = "recv"
    /\ work = <<>>
    /\ workClosed
    /\ wpc' = [wpc EXCEPT ![w] = "done"]
    /\ wg' = wg - 1
    /\ UNCHANGED <<configVars, importSkipExisting, mainVars, targetVars,
                   counterVars, work, workClosed, results, resultsClosed,
                   wsecret, wresult, sendIdx, sendpc, waitpc, processed, progress,
                   interactiveVars>>

\* An existence check whose `if exists` branch does not return.
importSecretExistsNoSkip(w) ==
    /\ Running
    /\ w \in Workers
    /\ wpc[w] = "exists"
    /\ LET secret == wsecret[w][1]
           destPath == DestPath(secret)
       IN  \E ret \in SecretExistsReturns(destPath) :
              /\ calls' = LogExists(SecretId(secret), ret)
              /\ IF ret.err # NoError
                 THEN /\ wresult' = [wresult EXCEPT
                                       ![w] = <<ResultExistsFailed(destPath,
                                                                  ret.err)>>]
                      /\ wpc' = [wpc EXCEPT ![w] = "send"]
                 ELSE /\ wresult' = wresult
                      /\ wpc' = [wpc EXCEPT ![w] = "write"]
    /\ UNCHANGED <<configVars, importSkipExisting, mainVars, store, store0,
                   healthCalls, healthErr, counterVars, chanVars, wsecret, sendIdx,
                   sendpc, waitpc, processed, progress, interactiveVars>>

\* An existence check whose error is dropped.
importSecretExistsIgnoresError(w) ==
    /\ Running
    /\ w \in Workers
    /\ wpc[w] = "exists"
    /\ LET secret == wsecret[w][1]
           destPath == DestPath(secret)
       IN  \E ret \in SecretExistsReturns(destPath) :
              /\ calls' = LogExists(SecretId(secret), ret)
              /\ IF ret.exists
                 THEN /\ wresult' = [wresult EXCEPT
                                       ![w] = <<ResultSkipped(destPath)>>]
                      /\ wpc' = [wpc EXCEPT ![w] = "send"]
                 ELSE /\ wresult' = wresult
                      /\ wpc' = [wpc EXCEPT ![w] = "write"]
    /\ UNCHANGED <<configVars, importSkipExisting, mainVars, store, store0,
                   healthCalls, healthErr, counterVars, chanVars, wsecret, sendIdx,
                   sendpc, waitpc, processed, progress, interactiveVars>>

\* importSecret, lines 586-598: the existence check and its two early returns.
importSecretExists(w) ==
    /\ Running
    /\ w \in Workers
    /\ wpc[w] = "exists"
    /\ LET secret == wsecret[w][1]
           destPath == DestPath(secret)
       IN  \E ret \in SecretExistsReturns(destPath) :
              /\ calls' = LogExists(SecretId(secret), ret)
              /\ IF ret.err # NoError
                 THEN /\ wresult' = [wresult EXCEPT
                                       ![w] = <<ResultExistsFailed(destPath,
                                                                  ret.err)>>]
                      /\ wpc' = [wpc EXCEPT ![w] = "send"]
                 ELSE IF ret.exists
                 THEN /\ wresult' = [wresult EXCEPT
                                       ![w] = <<ResultSkipped(destPath)>>]
                      /\ wpc' = [wpc EXCEPT ![w] = "send"]
                 ELSE /\ wresult' = wresult
                      /\ wpc' = [wpc EXCEPT ![w] = "write"]
    /\ UNCHANGED <<configVars, importSkipExisting, mainVars, store, store0,
                   healthCalls, healthErr, counterVars, chanVars, wsecret, sendIdx,
                   sendpc, waitpc, processed, progress, interactiveVars>>

\* A write that is tried again after it failed.
importSecretWriteRetries(w) ==
    /\ Running
    /\ w \in Workers
    /\ wpc[w] = "write"
    /\ LET secret == wsecret[w][1]
           destPath == DestPath(secret)
       IN  \E err \in WriteSecretReturns :
              /\ store' = StoreAfterWrite(destPath, secret.Data, err)
              /\ calls' = LogWrite(SecretId(secret), err)
              /\ IF err # NoError
                 THEN /\ wresult' = wresult
                      /\ wpc' = wpc
                 ELSE /\ wresult' = [wresult EXCEPT
                                       ![w] = <<ResultImported(destPath)>>]
                      /\ wpc' = [wpc EXCEPT ![w] = "send"]
    /\ UNCHANGED <<configVars, importSkipExisting, mainVars, store0,
                   healthCalls, healthErr, counterVars, chanVars, wsecret,
                   sendIdx, sendpc, waitpc, processed, progress, interactiveVars>>

\* importSecret, lines 600-607: the write and the result it yields.
importSecretWrite(w) ==
    /\ Running
    /\ w \in Workers
    /\ wpc[w] = "write"
    /\ LET secret == wsecret[w][1]
           destPath == DestPath(secret)
       IN  \E err \in WriteSecretReturns :
              /\ store' = StoreAfterWrite(destPath, secret.Data, err)
              /\ calls' = LogWrite(SecretId(secret), err)
              /\ wresult' = [wresult EXCEPT ![w] =
                               IF err # NoError
                               THEN <<ResultWriteFailed(destPath, err)>>
                               ELSE <<ResultImported(destPath)>>]
    /\ wpc' = [wpc EXCEPT ![w] = "send"]
    /\ UNCHANGED <<configVars, importSkipExisting, mainVars, store0,
                   healthCalls, healthErr, counterVars, chanVars, wsecret, sendIdx,
                   sendpc, waitpc, processed, progress, interactiveVars>>

\* Line 532: `results <- result`.
WorkerSend(w) ==
    /\ Running
    /\ w \in Workers
    /\ wpc[w] = "send"
    /\ Len(results) < Cap
    /\ results' = Append(results, wresult[w][1])
    /\ calls' = LogResult(SecretId(wsecret[w][1]), wresult[w][1])
    /\ wsecret' = [wsecret EXCEPT ![w] = <<>>]
    /\ wresult' = [wresult EXCEPT ![w] = <<>>]
    /\ wpc' = [wpc EXCEPT ![w] = "recv"]
    /\ UNCHANGED <<configVars, importSkipExisting, mainVars, store, store0,
                   healthCalls, healthErr, counterVars, wg, work, workClosed,
                   resultsClosed, sendIdx, sendpc, waitpc, processed, progress,
                   interactiveVars>>

\* Lines 546-549: wg.Wait(), then close(results).
CloseResults ==
    /\ Running
    /\ waitpc = "wait"
    /\ wg = 0
    /\ resultsClosed' = TRUE
    /\ waitpc' = "done"
    /\ UNCHANGED <<configVars, importSkipExisting, mainVars, targetVars,
                   counterVars, wg, work, workClosed, results, workerVars,
                   sendIdx, sendpc, processed, progress,
                   interactiveVars>>

\* Lines 552-564: `for result := range results` counts one result.
ProcessResult ==
    /\ pc = "collect"
    /\ results # <<>>
    /\ LET result == Head(results)
       IN  /\ skipped' = IF CountsSkipped(result) THEN skipped + 1 ELSE skipped
           /\ imported' = IF CountsImported(result) THEN imported + 1
                                                   ELSE imported
           /\ failed' = IF CountsFailed(result) THEN failed + 1 ELSE failed
    /\ results' = Tail(results)
    /\ processed' = processed + 1
    /\ progress' = Append(progress, imported' + skipped' + failed')
    /\ UNCHANGED <<configVars, importSkipExisting, mainVars, targetVars, wg,
                   work, workClosed, resultsClosed, workerVars, sendIdx,
                   sendpc, waitpc, interactiveVars>>

\* A collector that stops as soon as the result channel is empty.
ReturnParallelEarly ==
    /\ pc = "collect"
    /\ results = <<>>
    /\ Return(IF failed > 0 THEN <<ErrFailed>> ELSE NoError)
    /\ UNCHANGED <<configVars, importSkipExisting, export, pathPrefix, planned,
                   engine, runs,
                   targetVars, counterVars, parallelVars, interactiveVars>>

\* Lines 566-576: the range ends on the closed, drained result channel; the
\* run fails when a secret failed.
ReturnParallel ==
    /\ pc = "collect"
    /\ results = <<>>
    /\ resultsClosed
    /\ Return(IF failed > 0 THEN <<ErrFailed>> ELSE NoError)
    /\ UNCHANGED <<configVars, importSkipExisting, export, pathPrefix, planned,
                   engine, runs,
                   targetVars, counterVars, parallelVars, interactiveVars>>


\* ---------------------------------------------------- runInteractiveImport
\* promptImport, lines 479-508: the options offered and the confirmation each
\* selection stands for; a failed survey.AskOne is (ConfirmAbort, error).
Options ==
    {"Yes", "No", "Yes to all remaining", "No to all remaining", "Abort import"}

\* A prompt that takes "Abort import" for "No".
promptImportAbortIsNo(selection) ==
    CASE selection = "Yes" -> ConfirmYes
      [] selection = "No" -> ConfirmNo
      [] selection = "Yes to all remaining" -> ConfirmYesToAll
      [] selection = "No to all remaining" -> ConfirmNoToAll
      [] OTHER -> ConfirmNo

promptImport(selection) ==
    CASE selection = "Yes" -> ConfirmYes
      [] selection = "No" -> ConfirmNo
      [] selection = "Yes to all remaining" -> ConfirmYesToAll
      [] selection = "No to all remaining" -> ConfirmNoToAll
      [] OTHER -> ConfirmAbort

\* Lines 402-404.
runInteractiveImport ==
    /\ pc = "runInteractiveImport"
    /\ pc' = "loop"
    /\ engine' = "runInteractiveImport"
    /\ imported' = 0 /\ skipped' = 0 /\ failed' = 0
    /\ confirmAll' = FALSE /\ skipAll' = FALSE
    /\ i' = 1
    /\ UNCHANGED <<configVars, importSkipExisting, runErr, export, pathPrefix,
                   planned, runs, targetVars, parallelVars, exists, prompts>>

\* A skipAll branch without `skipped++`.
LoopSkipAllNotCounted ==
    /\ pc = "loop"
    /\ i <= N
    /\ skipAll
    /\ skipped' = skipped
    /\ i' = i + 1
    /\ UNCHANGED <<configVars, importSkipExisting, mainVars, targetVars,
                   imported, failed, parallelVars, confirmAll, skipAll, exists,
                   prompts>>

\* Lines 410-413: under skipAll the secret is counted as skipped.
LoopSkipAll ==
    /\ pc = "loop"
    /\ i <= N
    /\ skipAll
    /\ skipped' = skipped + 1
    /\ i' = i + 1
    /\ UNCHANGED <<configVars, importSkipExisting, mainVars, targetVars,
                   imported, failed, parallelVars, confirmAll, skipAll, exists,
                   prompts>>

\* An existence check and prompt made whatever confirmAll is.
LoopExistsIgnoresConfirmAll ==
    /\ pc = "loop"
    /\ i <= N
    /\ ~skipAll
    /\ \E ret \in SecretExistsReturns(DestPath(export.Secrets[i])) :
          /\ calls' = LogExists(i, ret)
          /\ exists' = ret.exists
    /\ pc' = "prompt"
    /\ UNCHANGED <<configVars, importSkipExisting, runErr, export, pathPrefix,
                   planned, engine, runs, store, store0, healthCalls, healthErr,
                   counterVars, parallelVars, i, confirmAll, skipAll, prompts>>

\* An existence check whose error fails the secret, as in Parallel mode.
LoopExistsFailureBlocks ==
    /\ pc = "loop"
    /\ i <= N
    /\ ~skipAll
    /\ ~confirmAll
    /\ \E ret \in SecretExistsReturns(DestPath(export.Secrets[i])) :
          /\ calls' = LogExists(i, ret)
          /\ exists' = ret.exists
          /\ IF ret.err # NoError
             THEN failed' = failed + 1 /\ i' = i + 1 /\ pc' = "loop"
             ELSE failed' = failed /\ i' = i /\ pc' = "prompt"
    /\ UNCHANGED <<configVars, importSkipExisting, runErr, export, pathPrefix,
                   planned, engine, runs, store, store0, healthCalls, healthErr,
                   imported, skipped, parallelVars, confirmAll, skipAll,
                   prompts>>

\* Lines 415-420: the existence check before a prompt; its error is a warning.
LoopExists ==
    /\ pc = "loop"
    /\ i <= N
    /\ ~skipAll
    /\ ~confirmAll
    /\ \E ret \in SecretExistsReturns(DestPath(export.Secrets[i])) :
          /\ calls' = LogExists(i, ret)
          /\ exists' = ret.exists
    /\ pc' = "prompt"
    /\ UNCHANGED <<configVars, importSkipExisting, runErr, export, pathPrefix,
                   planned, engine, runs, store, store0, healthCalls, healthErr, counterVars,
                   parallelVars, i, confirmAll, skipAll, prompts>>

\* A confirmAll branch that still makes the existence check.
LoopConfirmAllChecksExists ==
    /\ pc = "loop"
    /\ i <= N
    /\ ~skipAll
    /\ confirmAll
    /\ \E ret \in SecretExistsReturns(DestPath(export.Secrets[i])) :
          /\ calls' = LogExists(i, ret)
          /\ exists' = ret.exists
    /\ pc' = "write"
    /\ UNCHANGED <<configVars, importSkipExisting, runErr, export, pathPrefix,
                   planned, engine, runs, store, store0, healthCalls, healthErr,
                   counterVars, parallelVars, i, confirmAll, skipAll, prompts>>

\* Line 415: under confirmAll the check and the prompt are passed over.
LoopConfirmAll ==
    /\ pc = "loop"
    /\ i <= N
    /\ ~skipAll
    /\ confirmAll
    /\ pc' = "write"
    /\ UNCHANGED <<configVars, importSkipExisting, runErr, export, pathPrefix,
                   planned, engine, runs, targetVars, counterVars, parallelVars,
                   interactiveVars>>

\* A failed prompt taken for the answer "No".
PromptFailsIsNo ==
    /\ pc = "prompt"
    /\ prompts' = Append(prompts, [secret |-> i, exists |-> exists,
                                    selection |-> ""])
    /\ skipped' = skipped + 1
    /\ i' = i + 1
    /\ pc' = "loop"
    /\ UNCHANGED <<configVars, importSkipExisting, runErr, export, pathPrefix,
                   planned, engine, runs, targetVars, imported, failed,
                   parallelVars, confirmAll, skipAll, exists>>

\* Lines 423-426: the prompt itself fails.
PromptFails ==
    /\ pc = "prompt"
    /\ prompts' = Append(prompts, [secret |-> i, exists |-> exists,
                                    selection |-> ""])
    /\ Return(Wrap(ErrPrompt, <<ErrSurvey>>))
    /\ UNCHANGED <<configVars, importSkipExisting, export, pathPrefix, planned,
                   engine, runs,
                   targetVars, counterVars, parallelVars, i, confirmAll,
                   skipAll, exists>>

\* Lines 423-445: the prompt is answered.
Prompt ==
    /\ pc = "prompt"
    /\ \E selection \in Options :
          LET confirmation == promptImport(selection)
          IN  /\ prompts' = Append(prompts, [secret |-> i, exists |-> exists,
                                              selection |-> selection])
              /\ CASE confirmation = ConfirmNo ->
                     /\ skipped' = skipped + 1
                     /\ i' = i + 1
                     /\ pc' = "loop"
                     /\ UNCHANGED <<runErr, confirmAll, skipAll>>
                [] confirmation = ConfirmYesToAll ->
                     /\ confirmAll' = TRUE
                     /\ pc' = "write"
                     /\ UNCHANGED <<runErr, skipped, i, skipAll>>
                [] confirmation = ConfirmNoToAll ->
                     /\ skipAll' = TRUE
                     /\ skipped' = skipped + 1
                     /\ i' = i + 1
                     /\ pc' = "loop"
                     /\ UNCHANGED <<runErr, confirmAll>>
                [] confirmation = ConfirmAbort ->
                     /\ Return(NoError)
                     /\ UNCHANGED <<skipped, i, confirmAll, skipAll>>
                [] OTHER ->
                     /\ pc' = "write"
                     /\ UNCHANGED <<runErr, skipped, i, confirmAll, skipAll>>
    /\ UNCHANGED <<configVars, importSkipExisting, export, pathPrefix, planned,
                   engine, runs,
                   targetVars, imported, failed, parallelVars, exists>>

\* A write whose success is not counted.
InteractiveWriteNotCounted ==
    /\ pc = "write"
    /\ LET secret == export.Secrets[i]
       IN  \E err \in WriteSecretReturns :
              /\ store' = StoreAfterWrite(DestPath(secret), secret.Data, err)
              /\ calls' = LogWrite(i, err)
              /\ IF err # NoError
                 THEN failed' = failed + 1 /\ imported' = imported
                 ELSE imported' = imported /\ failed' = failed
    /\ i' = i + 1
    /\ pc' = "loop"
    /\ UNCHANGED <<configVars, importSkipExisting, runErr, export, pathPrefix,
                   planned, engine, runs, store0, healthCalls, healthErr,
                   skipped, parallelVars, confirmAll, skipAll, exists, prompts>>

\* A write that takes the secrets from the end of the stream.
InteractiveWriteOutOfOrder ==
    /\ pc = "write"
    /\ LET secret == export.Secrets[N + 1 - i]
       IN  \E err \in WriteSecretReturns :
              /\ store' = StoreAfterWrite(DestPath(secret), secret.Data, err)
              /\ calls' = LogWrite(N + 1 - i, err)
              /\ IF err # NoError
                 THEN failed' = failed + 1 /\ imported' = imported
                 ELSE imported' = imported + 1 /\ failed' = failed
    /\ i' = i + 1
    /\ pc' = "loop"
    /\ UNCHANGED <<configVars, importSkipExisting, runErr, export, pathPrefix,
                   planned, engine, runs, store0, healthCalls, healthErr,
                   skipped, parallelVars, confirmAll, skipAll, exists, prompts>>

\* A write whose failure ends the run.
InteractiveWriteFailStops ==
    /\ pc = "write"
    /\ LET secret == export.Secrets[i]
       IN  \E err \in WriteSecretReturns :
              /\ store' = StoreAfterWrite(DestPath(secret), secret.Data, err)
              /\ calls' = LogWrite(i, err)
              /\ IF err # NoError
                 THEN /\ failed' = failed + 1 /\ imported' = imported
                      /\ Return(err)
                 ELSE /\ imported' = imported + 1 /\ failed' = failed
                      /\ pc' = "loop" /\ runErr' = runErr
    /\ i' = i + 1
    /\ UNCHANGED <<configVars, importSkipExisting, export, pathPrefix,
                   planned, engine, runs, store0, healthCalls, healthErr,
                   skipped, parallelVars, confirmAll, skipAll, exists, prompts>>

\* A write whose failure takes back "Yes to all remaining".
InteractiveWriteFailClearsConfirmAll ==
    /\ pc = "write"
    /\ LET secret == export.Secrets[i]
       IN  \E err \in WriteSecretReturns :
              /\ store' = StoreAfterWrite(DestPath(secret), secret.Data, err)
              /\ calls' = LogWrite(i, err)
              /\ IF err # NoError
                 THEN /\ failed' = failed + 1 /\ imported' = imported
                      /\ confirmAll' = FALSE
                 ELSE /\ imported' = imported + 1 /\ failed' = failed
                      /\ confirmAll' = confirmAll
    /\ i' = i + 1
    /\ pc' = "loop"
    /\ UNCHANGED <<configVars, importSkipExisting, runErr, export, pathPrefix,
                   planned, engine, runs, store0, healthCalls, healthErr,
                   skipped, parallelVars, skipAll, exists, prompts>>

\* Lines 447-455: the write; a failure is counted and the loop goes on.
InteractiveWrite ==
    /\ pc = "write"
    /\ LET secret == export.Secrets[i]
       IN  \E err \in WriteSecretReturns :
              /\ store' = StoreAfterWrite(DestPath(secret), secret.Data, err)
              /\ calls' = LogWrite(i, err)
              /\ IF err # NoError
                 THEN failed' = failed + 1 /\ imported' = imported
                 ELSE imported' = imported + 1 /\ failed' = failed
    /\ i' = i + 1
    /\ pc' = "loop"
    /\ UNCHANGED <<configVars, importSkipExisting, runErr, export, pathPrefix,
                   planned, engine, runs, store0, healthCalls, healthErr, skipped, parallelVars,
                   confirmAll, skipAll, exists, prompts>>

\* Lines 456-464: the stream has ended; the totals are printed.
ReturnInteractive ==
    /\ pc = "loop"
    /\ i > N
    /\ Return(NoError)
    /\ UNCHANGED <<configVars, importSkipExisting, export, pathPrefix, planned,
                   engine, runs,
                   targetVars, counterVars, parallelVars, interactiveVars>>

\* ------------------------------------------------------------------- specs
FrontEnd ==
    \/ ValidateFlags
    \/ ValidateFile
    \/ ParseHeaders
    \/ runDryRun
    \/ NewClient
    \/ Health

Main == \/ runParallelImport
        \/ ProcessResult
        \/ ReturnParallel

Sender == SendWork \/ CloseWork

Waiter == CloseResults

Worker(w) ==
    \/ WorkerRecv(w)
    \/ WorkerExit(w)
    \/ importSecretExists(w)
    \/ importSecretWrite(w)
    \/ WorkerSend(w)

Parallel == Main \/ Sender \/ Waiter \/ (\E w \in 1..MaxW : Worker(w))

Interactive ==
    \/ runInteractiveImport
    \/ LoopSkipAll
    \/ LoopExists
    \/ LoopConfirmAll
    \/ PromptFails
    \/ Prompt
    \/ InteractiveWrite
    \/ ReturnInteractive

Next == FrontEnd \/ Parallel \/ Interactive

Spec == Init /\ [][Next]_vars

\* The command with --skip-existing and neither --overwrite-all, --interactive
\* nor --dry-run: the parallel engine with the existence check.
InitSkipExisting ==
    /\ Init
    /\ importSkipExisting
    /\ ~importOverwriteAll
    /\ ~importInteractive
    /\ ~importDryRun

NextParallel ==
    \/ ValidateFlags
    \/ ValidateFile
    \/ ParseHeaders
    \/ NewClient
    \/ Health
    \/ Parallel

\* The Go scheduler runs every goroutine that can take a step, and every
\* Target call returns.
Fairness ==
    /\ WF_vars(Main)
    /\ WF_vars(Sender)
    /\ WF_vars(Waiter)
    /\ \A w \in 1..MaxW : WF_vars(Worker(w))

\* The parallel engine alone, with SkipExisting, under the same fairness, on
\* a Target that holds the secret at "a" and none at "b": a stream over the
\* two paths takes every branch of importSecret.
InitOneExisting ==
    /\ InitSkipExisting
    /\ \A d \in AllDest :
          store[d] = Preexisting <=>
             d = normalizePathPrefix(importPathPrefix) \o <<"a">>

FairParallelSpec == InitOneExisting /\ [][NextParallel]_vars /\ Fairness

\* The command run again, with the same flags and file, on the Target a
\* fully successful parallel run has left.
Summary == [imported |-> imported, skipped |-> skipped, failed |-> failed,
            err |-> runErr]

Rerun ==
    /\ pc = "returned"
    /\ engine = "runParallelImport"
    /\ runErr = NoError
    /\ Len(runs) + 1 < MaxRuns
    /\ runs' = Append(runs, Summary)
    /\ pc' = "runImport"
    /\ runErr' = NoError
    /\ export' = ExportFile("", "", 0, 0, <<>>)
    /\ pathPrefix' = <<>>
    /\ planned' = <<>>
    /\ engine' = "none"
    /\ store0' = store
    /\ healthCalls' = 0
    /\ healthErr' = NoError
    /\ calls' = <<>>
    /\ imported' = 0 /\ skipped' = 0 /\ failed' = 0
    /\ wg' = 0
    /\ work' = <<>> /\ workClosed' = FALSE
    /\ results' = <<>> /\ resultsClosed' = FALSE
    /\ wpc' = <<>> /\ wsecret' = <<>> /\ wresult' = <<>>
    /\ sendIdx' = 0 /\ sendpc' = "off" /\ waitpc' = "off"
    /\ processed' = 0
    /\ progress' = <<>>
    /\ UNCHANGED <<configVars, importSkipExisting, store, interactiveVars>>

NextRerun == NextParallel \/ Rerun

SpecRerun == InitSkipExisting /\ [][NextRerun]_vars

\* The context handed to runParallelImport is cancelled while the sender
\* still has secrets to send.
Cancel ==
    /\ Running
    /\ ~ctxDone
    /\ sendpc = "send" /\ sendIdx <= N
    /\ ctxDone' = TRUE
    /\ unsent' = sendIdx..N
    /\ UNCHANGED <<importOverwriteAll, importInteractive, importDryRun,
                   importParallelism, importPathPrefix, exportFile,
                   filterFlags, listVars, exportVars, adapterVars,
                   importSkipExisting, mainVars, targetVars, counterVars,
                   parallelVars, interactiveVars>>

NextCancel == NextParallel \/ Cancel

SpecCancel == InitSkipExisting /\ [][NextCancel]_vars

\* ------------------------------------------------------- list and export
\* schema.NewExportFile: the current version, the source's name, the time of
\* the export, and no secret (TotalSecrets is left at its zero value).
NewExportFile(sourceName) == ExportFile(Version, sourceName, 1, 0, <<>>)

\* An AddSecret that leaves metadata.total_secrets as it was.
AddSecretNoTotal(e, secret) ==
    [e EXCEPT !.Secrets = Append(e.Secrets, secret)]

\* ExportFile.AddSecret: the secret is appended and the total is set to the
\* length of the list.
AddSecret(e, secret) ==
    LET secrets == Append(e.Secrets, secret)
    IN  [e EXCEPT !.Secrets = secrets,
                  !.Metadata.TotalSecrets = Len(secrets)]

\* Source.Get on a path that can be fetched: the secret of that path, its
\* data map carrying the path as its one key.
SourceGet(path) == Secret(path, <<path>>)

\* runList: the source is got, configured and listed with the includes (or
\* "**"); the excludes are applied with matchGlob; the paths are printed.
runList ==
    /\ listpc = "runList"
    /\ \E ok \in BOOLEAN :
          IF ~ok
          THEN listpc' = "failed" /\ listInfos' = listInfos
          ELSE LET infos == SourceList(ListPatterns(listIncludes))
                   Excluded(path) ==
                       \E n \in DOMAIN listExcludes :
                           matchGlob(listExcludes[n], path)
                   Kept(path) == ~Excluded(path)
               IN  /\ listInfos' = IF Len(listExcludes) > 0
                                    THEN SelectSeq(infos, Kept)
                                    ELSE infos
                   /\ listpc' = "returned"
    /\ UNCHANGED <<importVars, adapterVars, filterFlags, exportVars>>

\* runExport, lines 59-128: the source is got, configured and listed with
\* the includes (or "**"); the PathFilter of the includes and the excludes
\* selects the paths; a dry run prints them and returns.
runExport ==
    /\ exportpc = "runExport"
    /\ listpc \in {"returned", "failed"}
    /\ \E ok \in BOOLEAN :
          IF ~ok
          THEN exportpc' = "failed"
               /\ UNCHANGED <<filteredPaths, exportIdx, outFile>>
          ELSE LET pathFilter == NewPathFilter(exportIncludes, exportExcludes)
                   infos == SourceList(ListPatterns(exportIncludes))
                   Selected(path) == Matches(pathFilter, path)
                   selected == SelectSeq(infos, Selected)
               IN  /\ outFile' = NewExportFile("aws")
                   /\ filteredPaths' = selected
                   /\ exportIdx' = 1
                   /\ exportpc' = IF Len(selected) = 0 \/ exportDryRun
                                  THEN "returned" ELSE "fetch"
    /\ UNCHANGED <<importVars, adapterVars, filterFlags, listVars, fetched, errCount>>

\* runExport, lines 134-145: one secret is fetched and added to the export
\* file, or its fetch fails and is counted.
ExportFetch ==
    /\ exportpc = "fetch"
    /\ exportIdx <= Len(filteredPaths)
    /\ \E ok \in BOOLEAN :
          IF ok
          THEN /\ outFile' = AddSecret(outFile,
                                        SourceGet(filteredPaths[exportIdx]))
               /\ errCount' = errCount
               /\ fetched' = Append(fetched, TRUE)
          ELSE /\ errCount' = errCount + 1
               /\ outFile' = outFile
               /\ fetched' = Append(fetched, FALSE)
    /\ exportIdx' = exportIdx + 1
    /\ UNCHANGED <<importVars, adapterVars, filterFlags, listVars, exportpc, filteredPaths>>

\* runExport, lines 146-161: the export file is written.
ExportWrite ==
    /\ exportpc = "fetch"
    /\ exportIdx > Len(filteredPaths)
    /\ \E ok \in BOOLEAN : exportpc' = IF ok THEN "returned" ELSE "failed"
    /\ UNCHANGED <<importVars, adapterVars, filterFlags, listVars, filteredPaths, exportIdx,
                   outFile, fetched, errCount>>

\* list is run as the preview, then export, with the same patterns on the
\* same listing; the import command is not run.
InitList ==
    /\ importOverwriteAll = FALSE
    /\ importInteractive = FALSE
    /\ importSkipExisting = TRUE
    /\ importDryRun = FALSE
    /\ importParallelism = 1
    /\ importPathPrefix \in RawPrefixes
    /\ exportFile = ExportFile(Version, "aws", 1, 0, <<>>)
    /\ InitRun
    /\ \A d \in AllDest : store[d] = Absent
    /\ listIncludes \in PatternLists /\ listExcludes \in PatternLists
    /\ exportIncludes = listIncludes /\ exportExcludes = listExcludes
    /\ exportDryRun \in BOOLEAN
    /\ secretList \in Listings
    /\ InitNoSourceExport
    /\ listpc = "runList" /\ listInfos = <<>>
    /\ exportpc = "runExport" /\ filteredPaths = <<>> /\ exportIdx = 0
    /\ outFile = ExportFile("", "", 0, 0, <<>>) /\ fetched = <<>>
    /\ errCount = 0

NextList == runList \/ runExport \/ ExportFetch \/ ExportWrite

SpecList == InitList /\ [][NextList]_vars

\* The command with --dry-run, over every value of --path-prefix.
InitDryRun ==
    /\ importOverwriteAll \in BOOLEAN
    /\ importInteractive \in BOOLEAN
    /\ importSkipExisting = TRUE
    /\ importDryRun = TRUE
    /\ importParallelism = 1
    /\ importPathPrefix \in PrefixStrings
    /\ exportFile \in ExportFiles
    /\ InitRun
    /\ InitNoList

NextDryRun ==
    \/ ValidateFlags
    \/ ValidateFile
    \/ ParseHeaders
    \/ runDryRun

SpecDryRun == InitDryRun /\ [][NextDryRun]_vars

\* The command with --interactive, on streams up to MaxStream secrets and a
\* Target that holds the secret at "a" and none at "b".
InitInteractive ==
    /\ importOverwriteAll = FALSE
    /\ importInteractive = TRUE
    /\ importSkipExisting = TRUE
    /\ importDryRun = FALSE
    /\ importParallelism = 1
    /\ importPathPrefix \in RawPrefixes
    /\ exportFile \in InteractiveFiles
    /\ InitRun
    /\ InitNoList
    /\ \A d \in AllDest : store[d] = Preexisting <=> Last(d) = "a"

NextInteractive ==
    \/ ValidateFlags
    \/ ValidateFile
    \/ ParseHeaders
    \/ NewClient
    \/ Health
    \/ Interactive

SpecInteractive == InitInteractive /\ [][NextInteractive]_vars


\* ------------------------------------------------------------------ claims
ParallelRun == engine = "runParallelImport"
InteractiveRun == engine = "runInteractiveImport"
Returned == pc = "returned"
Sum == imported + skipped + failed
Taken(k) == calls[k].taken
ExistsOf(k) == calls[k].exists
WritesOf(k) == calls[k].writes
ResultsOf(k) == calls[k].results

\* C1: in Parallel mode with W >= 1 workers, under every interleaving, no
\* secret of the stream is dequeued twice or yields two results, and when
\* runParallelImport returns every secret has been dequeued exactly once and
\* has yielded exactly one ImportResult.
C1_ExactlyOnce ==
    (ParallelRun /\ importParallelism >= 1) =>
        /\ \A k \in Ids : Taken(k) <= 1 /\ Len(ResultsOf(k)) <= Taken(k)
        /\ Returned => \A k \in Ids : Taken(k) = 1 /\ Len(ResultsOf(k)) = 1

C1_Witness ==
    /\ ParallelRun /\ Returned
    /\ importParallelism >= 2 /\ N >= 2
    /\ \A k \in Ids : Taken(k) = 1 /\ Len(ResultsOf(k)) = 1


\* C2: in both modes, in every reachable state imported + skipped + failed is
\* the number of secrets whose outcome has been recorded so far; when a
\* Parallel run returns the sum is N, and when an Interactive run ends the sum
\* is the number of secrets attempted, at most N.  (That the counters never
\* decrease is C2_Monotone.)
C2_CountersAccount ==
    /\ ParallelRun => Sum = processed
    /\ InteractiveRun => Sum = i - 1
    /\ (ParallelRun /\ Returned) => Sum = N
    /\ (InteractiveRun /\ Returned) => Sum = i - 1 /\ Sum <= N

\* C2, the counters: no step of a run decreases imported, skipped or failed.
C2_Monotone ==
    [][imported' >= imported /\ skipped' >= skipped /\ failed' >= failed]_vars

\* C2 with at least one worker: the whole of C2_CountersAccount.
C2_WithWorkers == importParallelism >= 1 => C2_CountersAccount

\* C3: in Parallel mode, whatever Exists and Write return, all N secrets have
\* received a result when runParallelImport returns, and it returns an error
\* if and only if the final failed count is > 0.
C3_NoFailFast ==
    (ParallelRun /\ Returned) =>
        /\ \A k \in Ids : Len(ResultsOf(k)) = 1
        /\ (runErr # NoError) <=> (failed > 0)

\* C3 with at least one worker.
C3_WithWorkers == importParallelism >= 1 => C3_NoFailFast

\* C4: in any mode, Interactive included, a run that ends with a secret in
\* the failed bucket returns an error.
C4_FailedMeansError ==
    (Returned /\ (ParallelRun \/ InteractiveRun) /\ failed > 0) =>
        runErr # NoError

\* C4 in Parallel mode alone.
C4_ParallelOnly == (Returned /\ ParallelRun /\ failed > 0) => runErr # NoError


DestOf(k) == DestPath(export.Secrets[k])
ExistsSaidTrue(k) == \E n \in DOMAIN ExistsOf(k) : ExistsOf(k)[n].exists
ExistsFailed(k) == \E n \in DOMAIN ExistsOf(k) : ExistsOf(k)[n].err # NoError
UniqueDestPaths == \A j, k \in Ids : DestOf(j) = DestOf(k) => j = k
NothingOverwritten == \A d \in AllDest : store0[d] # Absent => store[d] = store0[d]

\* C5: in Parallel mode with SkipExisting, whenever Exists returns true for
\* a secret, its result is success with skipped=true and Write is never
\* called for that destination path in the run; no secret present in the
\* Target before the run is overwritten.
C5_SkipNeverWritesPath ==
    (ParallelRun /\ SkipCheck) =>
        /\ \A k \in Ids : ExistsSaidTrue(k) =>
              /\ \A n \in DOMAIN ResultsOf(k) :
                    ResultsOf(k)[n] = ResultSkipped(DestOf(k))
              /\ Returned => Len(ResultsOf(k)) = 1
              /\ \A j \in Ids : DestOf(j) = DestOf(k) => WritesOf(j) = <<>>
        /\ NothingOverwritten

\* C5 as amended: in Parallel mode with SkipExisting, whenever Exists returns
\* true for a secret, its result is success with skipped=true and Write is
\* never called for that secret, nor, when the destination paths of the
\* stream are pairwise distinct, for its destination path; no secret present
\* in the Target before the run is overwritten.
C5_SkipNeverWritesSecret ==
    (ParallelRun /\ SkipCheck) =>
        /\ \A k \in Ids : ExistsSaidTrue(k) =>
              /\ \A n \in DOMAIN ResultsOf(k) :
                    ResultsOf(k)[n] = ResultSkipped(DestOf(k))
              /\ Returned => Len(ResultsOf(k)) = 1
              /\ WritesOf(k) = <<>>
              /\ UniqueDestPaths =>
                    \A j \in Ids : DestOf(j) = DestOf(k) => WritesOf(j) = <<>>
        /\ NothingOverwritten

C5_Witness ==
    /\ ParallelRun /\ Returned /\ SkipCheck
    /\ N >= 2 /\ UniqueDestPaths
    /\ \E k \in Ids : ExistsSaidTrue(k) /\ store[DestOf(k)] = Preexisting
    /\ \E k \in Ids : WritesOf(k) # <<>>

CountOf(Counts(_)) ==
    Cardinality({k \in Ids : ResultsOf(k) # <<>> /\ Counts(ResultsOf(k)[1])})

\* C6: in Parallel mode with SkipExisting, a secret whose existence check
\* returns an error gets a failed result (success=false, skipped=false) whose
\* error wraps the underlying one, Write is not called for it, and it is
\* counted in failed and in no other bucket.
C6_ExistsErrorFails ==
    (ParallelRun /\ SkipCheck) =>
        /\ \A k \in Ids : ExistsFailed(k) =>
              /\ WritesOf(k) = <<>>
              /\ \A n \in DOMAIN ResultsOf(k) :
                    /\ ResultsOf(k)[n] =
                          ImportResult(DestOf(k), FALSE, FALSE,
                                       Wrap(ErrCheckExistence, ExistsOf(k)[1].err))
                    /\ CountsFailed(ResultsOf(k)[n])
                    /\ ~CountsImported(ResultsOf(k)[n])
                    /\ ~CountsSkipped(ResultsOf(k)[n])
              /\ Returned => Len(ResultsOf(k)) = 1
        /\ Returned =>
              /\ failed = CountOf(CountsFailed)
              /\ imported = CountOf(CountsImported)
              /\ skipped = CountOf(CountsSkipped)

C6_Witness ==
    /\ ParallelRun /\ Returned /\ SkipCheck
    /\ N >= 2
    /\ \E k \in Ids : ExistsFailed(k)
    /\ \E k \in Ids : ~ExistsFailed(k)
    /\ failed = 1

\* C7: selecting OverwriteAll forces SkipExisting off: in an OverwriteAll run
\* Exists is never called and Write is called for every secret of the stream;
\* a Write error yields a failed result carrying that error and a Write
\* success yields an imported result.
C7_OverwriteAllWritesAll ==
    (ParallelRun /\ importOverwriteAll) =>
        /\ ~importSkipExisting
        /\ \A k \in Ids : ExistsOf(k) = <<>>
        /\ Returned => \A k \in Ids :
              /\ Len(WritesOf(k)) = 1
              /\ ResultsOf(k) =
                    << IF WritesOf(k)[1] = NoError
                       THEN ResultImported(DestOf(k))
                       ELSE ResultWriteFailed(DestOf(k), WritesOf(k)[1]) >>

\* C7 with at least one worker.
C7_WithWorkers == importParallelism >= 1 => C7_OverwriteAllWritesAll


LastRun == runs[Len(runs)]
AllWritesSucceeded ==
    \A k \in Ids : \A n \in DOMAIN WritesOf(k) : WritesOf(k)[n] = NoError
NoExistsHit == \A k \in Ids : ~ExistsSaidTrue(k) /\ ~ExistsFailed(k)

C9_AllWritesSucceed ==
    ( /\ ParallelRun /\ Returned
      /\ importParallelism \in {1, 5, N}
      /\ AllWritesSucceeded )
    => imported = N /\ skipped = 0 /\ failed = 0

\* C9 as amended: in Parallel mode with W workers and N secrets where no
\* existence check returns true or fails and every Write call succeeds, the
\* final Summary is imported == N, skipped == 0, failed == 0, for every worker
\* count W >= 1 (and for W == N).
C9_AllWritesSucceedNoneExists ==
    ( /\ ParallelRun /\ Returned
      /\ (importParallelism >= 1 \/ importParallelism = N)
      /\ AllWritesSucceeded
      /\ NoExistsHit )
    => imported = N /\ skipped = 0 /\ failed = 0

C9_Witness ==
    /\ ParallelRun /\ Returned /\ SkipCheck
    /\ importParallelism >= 2 /\ N >= 2
    /\ AllWritesSucceeded /\ NoExistsHit
    /\ imported = N

\* C10: the orchestrating call of Parallel mode terminates: for W >= 1, with
\* every goroutine scheduled fairly and every Target call returning, the
\* sender enqueues all N secrets and closes the work queue, every worker
\* exits, the result channel is closed and runParallelImport returns.
C10_Terminates ==
    (pc = "runParallelImport" /\ importParallelism >= 1)
    ~> ( /\ Returned
         /\ sendIdx = N + 1 /\ workClosed /\ work = <<>>
         /\ \A w \in Workers : wpc[w] = "done"
         /\ resultsClosed /\ results = <<>> )

C10_Witness ==
    /\ ParallelRun /\ Returned
    /\ importParallelism >= 2 /\ N >= 2
    /\ sendIdx = N + 1 /\ workClosed /\ resultsClosed
    /\ \A w \in Workers : wpc[w] = "done"

\* No Exists or Write call has been made for any secret, and the Target holds
\* what it held before the run.
NoSecretCalls ==
    /\ \A k \in DOMAIN calls : ExistsOf(k) = <<>> /\ WritesOf(k) = <<>>
    /\ store = store0
EngineRun == ParallelRun \/ InteractiveRun

\* C11: the worker count of an import run is >= 1: with a parallelism below
\* 1 the command returns a configuration error before any engine work, so
\* the parallel engine never runs with W < 1.
C11_WorkersAtLeastOne ==
    /\ ParallelRun => importParallelism >= 1
    /\ (importParallelism < 1 /\ ~importInteractive /\ ~importDryRun /\ Returned)
          => runErr # NoError

\* C12: with OverwriteAll and Interactive both selected, runImport returns
\* the configuration error at once: neither engine is started and no Health,
\* Exists or Write call is made.
C12_FlagConflict ==
    (importOverwriteAll /\ importInteractive) =>
        /\ pc \in {"runImport", "returned"}
        /\ Returned => runErr = <<ErrFlags>>
        /\ engine = "none"
        /\ healthCalls = 0
        /\ NoSecretCalls

C12_Witness ==
    /\ importOverwriteAll /\ importInteractive
    /\ Returned /\ runErr = <<ErrFlags>>
    /\ Validate(exportFile) = NoError /\ Len(exportFile.Secrets) >= 1

\* C13: the health probe is made once, before any secret is attempted: an
\* engine runs, and an Exists or Write call is made, only after the one probe
\* has succeeded; when the probe fails (unreachable or sealed) the run ends
\* with that error, no engine having run and no Exists or Write call made.
C13_HealthOnceUpFront ==
    /\ healthCalls <= 1
    /\ (EngineRun \/ pc \in {"runParallelImport", "runInteractiveImport"}
           \/ ~NoSecretCalls)
          => healthCalls = 1 /\ healthErr = NoError
    /\ healthErr # NoError =>
          /\ Returned /\ runErr = Wrap(ErrHealth, healthErr)
          /\ engine = "none"
          /\ NoSecretCalls

C13_Witness ==
    /\ healthCalls = 1 /\ healthErr = <<ErrSealed>>
    /\ Returned /\ runErr = Wrap(ErrHealth, healthErr)
    /\ N >= 1 /\ NoSecretCalls

\* C14: a dry run bypasses the engine: with --dry-run no client is created,
\* no Health, Exists or Write call is made and the Target is unchanged; on a
\* valid export file (flags and headers accepted) it returns nil having
\* reported, for every secret, its path, prefix + path, and its key names.
C14_DryRunNoTargetCall ==
    importDryRun =>
        /\ pc \in {"runImport", "validateFile", "parseHeaders", "runDryRun",
                   "returned"}
        /\ engine \in {"none", "runDryRun"}
        /\ healthCalls = 0
        /\ NoSecretCalls
        /\ (Returned /\ runErr = NoError) =>
              /\ engine = "runDryRun"
              /\ Len(planned) = Len(exportFile.Secrets)
              /\ \A k \in DOMAIN planned :
                    planned[k] =
                       << exportFile.Secrets[k].Path,
                          normalizePathPrefix(importPathPrefix)
                             \o exportFile.Secrets[k].Path,
                          exportFile.Secrets[k].Data >>
        /\ (Returned /\ runErr # NoError) =>
              /\ planned = <<>>
              /\ runErr[1] \in {ErrFlags, ErrValidate, ErrHeader}

C14_Witness ==
    /\ importDryRun /\ Returned /\ runErr = NoError
    /\ Len(planned) >= 2
    /\ \E d \in AllDest : store[d] = Preexisting

\* runImport has normalised the prefix and gone on with it.
Normalized == pc = "runDryRun" \/ engine = "runDryRun"
NoDoubleSlash(p) == \A n \in 1..(Len(p) - 1) : ~(p[n] = "/" /\ p[n + 1] = "/")

\* C15: path-prefix normalization is idempotent: normalizing the normalized
\* prefix gives it back, for every prefix string, and "" and "/" both
\* normalize to "".
C15_Idempotent ==
    Normalized =>
        /\ pathPrefix = normalizePathPrefix(importPathPrefix)
        /\ normalizePathPrefix(pathPrefix) = pathPrefix
        /\ importPathPrefix \in {<<>>, <<"/">>} => pathPrefix = <<>>

\* C15 for the prefixes that hold no "//".
C15_IdempotentNoDoubleSlash == NoDoubleSlash(importPathPrefix) => C15_Idempotent

\* C16: for every prefix string, the normalized prefix is empty, or has no
\* leading '/' and ends with exactly one '/'; "" and "/" normalize to "".
C16_NormalForm ==
    Normalized =>
        /\ \/ pathPrefix = <<>>
           \/ /\ pathPrefix[1] # "/"
              /\ Last(pathPrefix) = "/"
              /\ Len(pathPrefix) >= 2 /\ pathPrefix[Len(pathPrefix) - 1] # "/"
        /\ importPathPrefix \in {<<>>, <<"/">>} => pathPrefix = <<>>

\* C16 for the prefixes that hold no "//".
C16_NormalFormNoDoubleSlash == NoDoubleSlash(importPathPrefix) => C16_NormalForm

\* The secrets before the k-th for which Write was called.
WrittenBefore(k) == {j \in 1..(k - 1) : WritesOf(j) # <<>>}
MaxOf(S) == CHOOSE x \in S : \A y \in S : y <= x
\* Every destination holds what the last successful Write of the run put
\* there, or what it held before the run.
WritesKept ==
    \A d \in AllDest :
        LET ws == {j \in Ids : /\ DestOf(j) = d
                               /\ \E n \in DOMAIN WritesOf(j) :
                                     WritesOf(j)[n] = NoError}
        IN  store[d] = IF ws = {} THEN store0[d]
                                  ELSE export.Secrets[MaxOf(ws)].Data

\* C17: in Interactive mode confirmAll and skipAll are both false at the
\* start, are never both true, and once one is true no step sets it back to
\* false.
C17_StickyFlags ==
    [][ /\ ~(confirmAll /\ skipAll) /\ ~(confirmAll' /\ skipAll')
        /\ pc = "runInteractiveImport" => (~confirmAll' /\ ~skipAll')
        /\ InteractiveRun => /\ confirmAll => confirmAll'
                             /\ skipAll => skipAll' ]_vars

C17_Witness ==
    /\ InteractiveRun /\ Returned /\ N >= 2
    /\ confirmAll /\ ~skipAll
    /\ prompts[1].selection = "Yes to all remaining"
    /\ i = N + 1

\* C18: in Interactive mode, after a NoToAll decision there is no further
\* prompt, Exists call or Write call, and the prompted secret and every
\* remaining one are counted as skipped; NoToAll on the 1st of 3 secrets ends
\* with imported=0, skipped=3, failed=0.
C18_NoToAllSkipsRest ==
    InteractiveRun =>
        \A n \in DOMAIN prompts :
            prompts[n].selection = "No to all remaining" =>
                LET k == prompts[n].secret
                IN  /\ n = Len(prompts)
                    /\ skipAll /\ runErr = NoError
                    /\ pc \in {"loop", "returned"}
                    /\ i > k
                    /\ \A j \in k..N : WritesOf(j) = <<>>
                    /\ \A j \in (k + 1)..N : ExistsOf(j) = <<>>
                    /\ imported + failed = Cardinality(WrittenBefore(k))
                    /\ skipped = (i - 1) - Cardinality(WrittenBefore(k))
                    /\ Returned => i = N + 1
                    /\ (Returned /\ N = 3 /\ k = 1) =>
                          imported = 0 /\ skipped = 3 /\ failed = 0

C18_Witness ==
    /\ InteractiveRun /\ Returned /\ N = 3
    /\ prompts[1].selection = "No to all remaining"
    /\ imported = 0 /\ skipped = 3 /\ failed = 0

\* C19: in Interactive mode, after a YesToAll decision the prompted secret
\* is written and every remaining secret is written in turn, with no further
\* prompt and no Exists call, until the stream ends.
C19_YesToAllWritesRest ==
    InteractiveRun =>
        \A n \in DOMAIN prompts :
            prompts[n].selection = "Yes to all remaining" =>
                LET k == prompts[n].secret
                IN  /\ n = Len(prompts)
                    /\ confirmAll /\ ~skipAll /\ runErr = NoError
                    /\ pc \in {"write", "loop", "returned"}
                    /\ i >= k
                    /\ \A j \in k..(i - 1) : Len(WritesOf(j)) = 1
                    /\ \A j \in (k + 1)..N : ExistsOf(j) = <<>>
                    /\ skipped = (k - 1) - Cardinality(WrittenBefore(k))
                    /\ imported + failed = (i - 1) - skipped
                    /\ Returned => i = N + 1

C19_Witness ==
    /\ InteractiveRun /\ Returned /\ N = 3
    /\ Len(prompts) = 2 /\ prompts[2].selection = "Yes to all remaining"
    /\ \A j \in 2..3 : Len(WritesOf(j)) = 1
    /\ ExistsOf(3) = <<>>

\* C20: in Interactive mode an Abort decision ends the run at once: the
\* prompted secret and the later ones get no Write, there is no further
\* Exists call or prompt, none of them is counted in any bucket, and the
\* writes already applied stay in the Target; Abort on the 2nd of 3 secrets
\* leaves exactly 1 secret processed and counted.
C20_AbortStops ==
    InteractiveRun =>
        \A n \in DOMAIN prompts :
            prompts[n].selection = "Abort import" =>
                LET k == prompts[n].secret
                IN  /\ n = Len(prompts)
                    /\ Returned /\ runErr = NoError
                    /\ i = k
                    /\ \A j \in k..N : WritesOf(j) = <<>>
                    /\ \A j \in (k + 1)..N : ExistsOf(j) = <<>>
                    /\ Sum = k - 1
                    /\ WritesKept
                    /\ (N = 3 /\ k = 2) => Sum = 1

C20_Witness ==
    /\ InteractiveRun /\ Returned /\ N = 3
    /\ Len(prompts) = 2 /\ prompts[2].selection = "Abort import"
    /\ imported = 1 /\ Sum = 1
    /\ store[DestOf(1)] = export.Secrets[1].Data

\* The selections made at the prompts so far, in order.
Selections == [n \in DOMAIN prompts |-> prompts[n].selection]

C22_StreamOrder ==
    [][ InteractiveRun =>
          /\ i' \in {i, i + 1}
          /\ \A k \in DOMAIN calls : calls'[k] # calls[k] => k = i
          /\ \A k \in DOMAIN calls :
                k > i => ExistsOf(k) = <<>> /\ WritesOf(k) = <<>>
          /\ prompts' # prompts =>
                /\ pc = "prompt"
                /\ prompts' = Append(prompts, prompts'[Len(prompts')])
                /\ prompts'[Len(prompts')].secret = i
                /\ \A n \in DOMAIN prompts : prompts[n].secret < i
          /\ i' = i + 1 => imported' + skipped' + failed' = i ]_vars

C22_Witness ==
    /\ InteractiveRun /\ Returned /\ N = 3
    /\ Len(prompts) = 3
    /\ \A k \in Ids : prompts[k].secret = k /\ Len(WritesOf(k)) = 1
    /\ Sum = 3

\* What the claim lists as an export that is not valid.
NotValidated(e) ==
    \/ e.Version # Version
    \/ \E k \in DOMAIN e.Secrets :
          e.Secrets[k].Path = <<>> \/ e.Secrets[k].Data = <<>>
    \/ e.Metadata.TotalSecrets # Len(e.Secrets)

\* C26: the import engine only runs on a validated export: when the file's
\* version is not the schema version, or a secret has an empty path or null
\* data, or metadata.total_secrets is not the number of secrets, runImport
\* returns an error with no Target call made and no engine invoked.
C26_ValidatedOnly ==
    NotValidated(exportFile) =>
        /\ pc \in {"runImport", "validateFile", "returned"}
        /\ Returned => runErr # NoError
        /\ engine = "none"
        /\ healthCalls = 0
        /\ NoSecretCalls

C26_Witness ==
    /\ Returned /\ runErr # NoError /\ runErr[1] = ErrValidate
    /\ exportFile.Version = Version
    /\ exportFile.Metadata.TotalSecrets = Len(exportFile.Secrets)
    /\ \E k \in DOMAIN exportFile.Secrets : exportFile.Secrets[k].Data = <<>>

\* Every prompt so far was answered Yes or No.
OnlyYesNo == \A n \in DOMAIN prompts : prompts[n].selection \in {"Yes", "No"}
WriteFailed(k) == WritesOf(k) # <<>> /\ WritesOf(k)[1] # NoError

\* C27: in Interactive mode while no sticky decision is active, Yes causes
\* exactly one Write for the prompted secret and No causes none and counts
\* it skipped; both leave confirmAll and skipAll false; a Write error after
\* Yes counts the secret as failed, changes no flag, and the run goes on
\* with the next secret, to the end of the stream.
C27_YesAndNo ==
    (InteractiveRun /\ OnlyYesNo) =>
        /\ ~confirmAll /\ ~skipAll
        /\ runErr = NoError
        /\ \A n \in DOMAIN prompts :
              LET k == prompts[n].secret
              IN  /\ prompts[n].selection = "No" =>
                        WritesOf(k) = <<>> /\ i > k
                  /\ prompts[n].selection = "Yes" =>
                        /\ Len(WritesOf(k)) = IF i > k THEN 1 ELSE 0
                        /\ i = k => pc = "write"
        /\ skipped =
              Cardinality({n \in DOMAIN prompts : prompts[n].selection = "No"})
        /\ imported =
              Cardinality({k \in 1..(i - 1) : WritesOf(k) = <<NoError>>})
        /\ failed = Cardinality({k \in 1..(i - 1) : WriteFailed(k)})
        /\ Returned => i = N + 1

C27_Witness ==
    /\ InteractiveRun /\ Returned /\ N = 3
    /\ Selections = <<"Yes", "No", "Yes">>
    /\ WriteFailed(1) /\ WritesOf(3) = <<NoError>>
    /\ imported = 1 /\ skipped = 1 /\ failed = 1

\* C28: in Interactive mode a failed existence check neither blocks nor
\* fails the secret: the prompt is still made, the secret is counted failed
\* only when its Write fails, and the prompt is flagged 'exists' exactly when
\* the check succeeded and returned true.
C28_ExistsIsAdvisory ==
    InteractiveRun =>
        /\ \A n \in DOMAIN prompts :
              LET k == prompts[n].secret
              IN  /\ Len(ExistsOf(k)) = 1
                  /\ prompts[n].exists =
                        (ExistsOf(k)[1].err = NoError /\ ExistsOf(k)[1].exists)
        /\ \A k \in Ids : ExistsFailed(k) =>
              \/ pc = "prompt" /\ i = k
              \/ \E n \in DOMAIN prompts : prompts[n].secret = k
        /\ failed = Cardinality({k \in Ids : WriteFailed(k)})
        /\ pc = "prompt" =>
              exists = (ExistsOf(i)[1].err = NoError /\ ExistsOf(i)[1].exists)

C28_Witness ==
    /\ InteractiveRun /\ Returned /\ N >= 2
    /\ ExistsFailed(1) /\ ~prompts[1].exists /\ WritesOf(1) = <<NoError>>
    /\ prompts[2].exists
    /\ failed = 0

\* C29: a single attempt per secret, no retry: in a run of either mode each
\* secret of the stream causes at most one Exists call and at most one Write
\* call, also after a failed existence check or a failed write.
C29_SingleAttempt ==
    \A k \in DOMAIN calls :
        /\ Len(ExistsOf(k)) <= 1
        /\ Len(WritesOf(k)) <= 1

C29_Witness ==
    /\ ParallelRun /\ Returned /\ N = 2
    /\ ExistsFailed(1) /\ WritesOf(1) = <<>>
    /\ WriteFailed(2) /\ Len(WritesOf(2)) = 1 /\ Len(ExistsOf(2)) = 1
    /\ failed = 2

\* The three shapes of an ImportResult.
Imported(r) == r.Success /\ ~r.Skipped /\ r.Error = NoError
Skipped(r) == r.Success /\ r.Skipped /\ r.Error = NoError
Failed(r) == ~r.Success /\ ~r.Skipped /\ r.Error # NoError
OneOf(a, b, c) == (a /\ ~b /\ ~c) \/ (~a /\ b /\ ~c) \/ (~a /\ ~b /\ c)
WellShaped(r) ==
    /\ OneOf(Imported(r), Skipped(r), Failed(r))
    /\ OneOf(CountsImported(r), CountsSkipped(r), CountsFailed(r))
    /\ Imported(r) <=> CountsImported(r)
    /\ Skipped(r) <=> CountsSkipped(r)
    /\ Failed(r) <=> CountsFailed(r)

\* C30: every ImportResult of importSecret has exactly one of the shapes
\* imported, skipped, failed; the aggregation raises exactly one of the three
\* counters per result, and the progress totals it prints are 1, 2, ..., N in
\* increasing order.
C30_ShapesAndProgress ==
    ParallelRun =>
        /\ \A k \in Ids : \A n \in DOMAIN ResultsOf(k) :
              WellShaped(ResultsOf(k)[n])
        /\ \A w \in DOMAIN wresult : \A n \in DOMAIN wresult[w] :
              WellShaped(wresult[w][n])
        /\ \A n \in DOMAIN progress : progress[n] = n
        /\ Len(progress) = processed /\ Sum = processed
        /\ Returned => Len(progress) = N

\* C30 with at least one worker.
C30_WithWorkers == importParallelism >= 1 => C30_ShapesAndProgress

\* C23: when the run's cancellation signal comes mid-dispatch in Parallel
\* mode, the secrets not yet sent to the work queue are abandoned: they are
\* never sent, never dequeued and never attempted.
C23_CancelAbandonsUnsent ==
    ctxDone =>
        \A k \in unsent :
            /\ sendIdx <= k
            /\ Taken(k) = 0
            /\ ExistsOf(k) = <<>> /\ WritesOf(k) = <<>>

\* export has selected its paths.
Selected == exportpc \in {"fetch", "returned"}
Range(seq) == {seq[n] : n \in DOMAIN seq}
ExcludeMatches(path) ==
    \E n \in DOMAIN exportExcludes : GlobMatch(exportExcludes[n], path)
IncludeMatches(path) ==
    \E n \in DOMAIN exportIncludes : GlobMatch(exportIncludes[n], path)
\* The claim's rule: excludes first, then the open-match default, then the
\* includes.
Accepted(path) ==
    /\ ~ExcludeMatches(path)
    /\ exportIncludes = <<>> \/ IncludeMatches(path)

\* C24: PathFilter.Matches(path) is false if any exclude pattern matches
\* path, whatever the includes; otherwise true if there is no include or
\* some include pattern matches path; otherwise false.
C24_MatchesRule ==
    Selected =>
        \A path \in Range(secretList) :
            /\ Matches(NewPathFilter(exportIncludes, exportExcludes), path)
                  = Accepted(path)
            /\ (path \in Range(filteredPaths)) = Accepted(path)

C24_Witness ==
    /\ Selected /\ secretList = Names
    /\ Len(exportIncludes) = 2 /\ Len(exportExcludes) = 2
    /\ \E path \in Range(secretList) :
          ExcludeMatches(path) /\ IncludeMatches(path)
             /\ path \notin Range(filteredPaths)
    /\ \E path \in Range(secretList) :
          ~ExcludeMatches(path) /\ ~IncludeMatches(path)
             /\ path \notin Range(filteredPaths)
    /\ \E path \in Range(secretList) : path \in Range(filteredPaths)

\* C25: list previews export: for the same listing and the same include and
\* exclude patterns, the set of paths list prints is the set of paths export
\* selects.
C25_ListPreviewsExport ==
    (listpc = "returned" /\ Selected) =>
        Range(listInfos) = Range(filteredPaths)

\* C25 when every exclude pattern is "**" or has no wildcard.
C25_LiteralExcludes ==
    (\A n \in DOMAIN listExcludes :
        \/ listExcludes[n] = <<"*", "*">>
        \/ \A m \in DOMAIN listExcludes[n] : listExcludes[n][m] # "*")
    => C25_ListPreviewsExport

\* Completion of a Parallel run: both channels are closed and drained, every
\* worker has returned and all N results are counted.
Complete ==
    /\ workClosed /\ resultsClosed
    /\ results = <<>>
    /\ \A w \in Workers : wpc[w] = "done"
    /\ processed = N

\* C31: in Parallel mode the Summary is read only after completion: the
\* result channel is closed only after all W workers have returned, no worker
\* sends on the closed result channel, the work queue is closed once and only
\* after all N secrets were enqueued, and every counted result is in the
\* counters when the Summary is reported (no lost update, no partial read).
C31_SummaryAfterCompletion ==
    ParallelRun =>
        /\ resultsClosed => wg = 0 /\ \A w \in Workers : wpc[w] = "done"
        /\ \A w \in Workers : wpc[w] = "send" => ~resultsClosed
        /\ workClosed <=> sendpc = "done"
        /\ workClosed => sendIdx = N + 1
        /\ Sum = processed
        /\ Returned => Complete /\ Sum = N

\* C31 for a run with at least one worker.
C31_WithWorkers == importParallelism >= 1 => C31_SummaryAfterCompletion

\* ---------------------------------------------------------------- two runs
\* The command run twice on the same file and the same Target: after the
\* first run has returned the Target is put back as it was and the command is
\* invoked again, in Parallel mode, with any number of workers.  The first
\* run is a Parallel run with one worker, or an Interactive run in which the
\* first answer was "Yes to all remaining", which is followed by a run with
\* --overwrite-all.
FirstRun ==
    [summary |-> Summary, store |-> store, calls |-> calls,
     engine |-> engine, prompts |-> prompts,
     parallelism |-> importParallelism]

Reinvoke ==
    /\ pc = "returned"
    /\ engine # "none"
    /\ engine = "runInteractiveImport" =>
          prompts # <<>> /\ prompts[1].selection = "Yes to all remaining"
    /\ runs = <<>>
    /\ runs' = <<FirstRun>>
    /\ importInteractive' = FALSE
    /\ importOverwriteAll' = IF importInteractive THEN TRUE
                                                  ELSE importOverwriteAll
    /\ importParallelism' \in 0..MaxW
    /\ store' = store0
    /\ pc' = "runImport"
    /\ runErr' = NoError
    /\ export' = ExportFile("", "", 0, 0, <<>>)
    /\ pathPrefix' = <<>>
    /\ planned' = <<>>
    /\ engine' = "none"
    /\ healthCalls' = 0
    /\ healthErr' = NoError
    /\ calls' = <<>>
    /\ imported' = 0 /\ skipped' = 0 /\ failed' = 0
    /\ wg' = 0
    /\ work' = <<>> /\ workClosed' = FALSE
    /\ results' = <<>> /\ resultsClosed' = FALSE
    /\ wpc' = <<>> /\ wsecret' = <<>> /\ wresult' = <<>>
    /\ sendIdx' = 0 /\ sendpc' = "off" /\ waitpc' = "off"
    /\ processed' = 0
    /\ progress' = <<>>
    /\ i' = 0 /\ confirmAll' = FALSE /\ skipAll' = FALSE /\ exists' = FALSE
    /\ prompts' = <<>>
    /\ UNCHANGED <<importDryRun, importPathPrefix, exportFile, ctxVars,
                   filterFlags, listVars, exportVars, adapterVars, importSkipExisting,
                   store0>>

\* The Target's failures depend on the path alone: every WriteSecret on a
\* path, in either run, returns the same error or none, and so does every
\* SecretExists (what it answers without error is read from the store).
FileDest(k) ==
    normalizePathPrefix(importPathPrefix) \o exportFile.Secrets[k].Path
WriteErrs(log, d) ==
    UNION {{log[k].writes[n] : n \in 1..Len(log[k].writes)} :
              k \in {j \in DOMAIN log : FileDest(j) = d}}
ExistsErrs(log, d) ==
    UNION {{log[k].exists[n].err : n \in 1..Len(log[k].exists)} :
              k \in {j \in DOMAIN log : FileDest(j) = d}}
LogsOfRuns == {calls} \cup {runs[r].calls : r \in DOMAIN runs}
DeterministicTarget ==
    \A d \in AllDest :
        /\ Cardinality(UNION {WriteErrs(log, d) : log \in LogsOfRuns}) <= 1
        /\ Cardinality(UNION {ExistsErrs(log, d) : log \in LogsOfRuns}) <= 1

InitTwoRuns ==
    /\ importInteractive \in BOOLEAN
    /\ importOverwriteAll \in BOOLEAN
    /\ importInteractive => ~importOverwriteAll
    /\ importSkipExisting = TRUE
    /\ importDryRun = FALSE
    /\ importParallelism = 1
    /\ importPathPrefix \in RawPrefixes
    /\ exportFile \in {ExportFile(Version, "aws", 1, Len(s), s) :
                          s \in ValidStreams}
    /\ InitRun
    /\ InitNoList
    /\ \A d \in AllDest : store[d] = Preexisting <=> Last(d) = "a"

NextTwoRuns ==
    \/ ValidateFlags
    \/ ValidateFile
    \/ ParseHeaders
    \/ NewClient
    \/ Health
    \/ Parallel
    \/ Interactive
    \/ Reinvoke

SpecTwoRuns == InitTwoRuns /\ [][NextTwoRuns]_vars

SecondReturned == Returned /\ runs # <<>> /\ engine = "runParallelImport"
WrittenPaths(log) ==
    {d \in AllDest : NoError \in WriteErrs(log, d)}
AttemptedPaths(log) ==
    {d \in AllDest : WriteErrs(log, d) # {}}
FirstDecisionYesToAll ==
    /\ runs # <<>>
    /\ runs[1].engine = "runInteractiveImport"
    /\ runs[1].prompts # <<>>
    /\ runs[1].prompts[1].selection = "Yes to all remaining"

\* C32: the two modes produce equivalent accounting: for the same stream and
\* the same per-path Write outcomes, an Interactive run whose first decision
\* is YesToAll ends with the same imported and failed totals, with
\* skipped = 0, and with the same set of written paths as a Parallel run
\* with OverwriteAll.
C32_ModesAgree ==
    (/\ SecondReturned /\ FirstDecisionYesToAll /\ importOverwriteAll
     /\ DeterministicTarget) =>
        /\ imported = runs[1].summary.imported
        /\ failed = runs[1].summary.failed
        /\ skipped = 0 /\ runs[1].summary.skipped = 0
        /\ WrittenPaths(calls) = WrittenPaths(runs[1].calls)
        /\ AttemptedPaths(calls) = AttemptedPaths(runs[1].calls)

\* C32 for a Parallel run with at least one worker.
C32_WithWorkers == importParallelism >= 1 => C32_ModesAgree

UniqueFileDest ==
    \A j, k \in DOMAIN exportFile.Secrets : FileDest(j) = FileDest(k) => j = k
BothParallel ==
    /\ SecondReturned
    /\ runs[1].engine = "runParallelImport"
    /\ runs[1].parallelism >= 1 /\ importParallelism >= 1
    /\ DeterministicTarget

\* C33: for a stream with unique destination paths and a Target whose
\* Exists and Write outcomes depend only on the path and the Target state,
\* two Parallel runs from the same initial state, with any worker counts
\* W >= 1 and any interleavings, end with the same Summary and the same
\* Target contents.
C33_RunsAgree ==
    (BothParallel /\ UniqueFileDest) =>
        /\ Summary = runs[1].summary
        /\ store = runs[1].store

C33_Witness ==
    /\ BothParallel /\ UniqueFileDest
    /\ Len(exportFile.Secrets) = MaxN
    /\ importParallelism = MaxW
    /\ skipped = 1
    /\ failed = 1
    /\ \E k \in Ids : WriteFailed(k)

\* C33 without the unique destination paths.
C33_AnyStream ==
    BothParallel =>
        /\ Summary = runs[1].summary
        /\ store = runs[1].store

NoSkipNoOverwrite ==
    ParallelRun /\ ~importSkipExisting /\ ~importOverwriteAll
       /\ ~importInteractive

\* C34: with --skip-existing=false and neither --overwrite-all nor
\* --interactive, the parallel engine behaves as in OverwriteAll: Exists is
\* never called and every secret is written, also over secrets that already
\* exist in the Target.
C34_NoSkipWritesAll ==
    NoSkipNoOverwrite =>
        /\ \A k \in Ids : ExistsOf(k) = <<>>
        /\ Returned => \A k \in Ids :
              /\ Len(WritesOf(k)) = 1
              /\ ResultsOf(k) =
                    << IF WritesOf(k)[1] = NoError
                       THEN ResultImported(DestOf(k))
                       ELSE ResultWriteFailed(DestOf(k), WritesOf(k)[1]) >>
              /\ WritesOf(k)[1] = NoError => store[DestOf(k)] # store0[DestOf(k)]

\* C34 with at least one worker.
C34_WithWorkers == importParallelism >= 1 => C34_NoSkipWritesAll

\* C35: in Interactive mode, when the prompt itself returns an error the run
\* stops at once with an error: the prompted secret and the later ones get
\* no Write, there is no further Exists call or prompt, and the writes
\* already applied stay in the Target.
C35_PromptErrorStops ==
    InteractiveRun =>
        \A n \in DOMAIN prompts :
            prompts[n].selection = "" =>
                LET k == prompts[n].secret
                IN  /\ n = Len(prompts)
                    /\ Returned
                    /\ runErr = Wrap(ErrPrompt, <<ErrSurvey>>)
                    /\ runErr # NoError
                    /\ i = k
                    /\ \A j \in k..N : WritesOf(j) = <<>>
                    /\ \A j \in (k + 1)..N : ExistsOf(j) = <<>>
                    /\ WritesKept

C35_Witness ==
    /\ InteractiveRun /\ Returned /\ N = 3
    /\ Len(prompts) = 2 /\ prompts[2].selection = ""
    /\ prompts[2].secret = 2
    /\ WritesOf(1) = <<NoError>>
    /\ store[DestOf(1)] = <<1>>
    /\ runErr # NoError

FailedWrites == {j \in Ids : WriteFailed(j)}

\* C36: in Interactive mode a YesToAll decision makes confirmAll true before
\* the prompted secret is written: when that write fails the secret is
\* counted as failed and every remaining secret is still written, without
\* prompt or existence check.
C36_YesToAllSurvivesFailure ==
    InteractiveRun =>
        \A n \in DOMAIN prompts :
            prompts[n].selection = "Yes to all remaining" =>
                LET k == prompts[n].secret
                IN  /\ confirmAll
                    /\ n = Len(prompts)
                    /\ (pc = "write" /\ i = k) => WritesOf(k) = <<>>
                    /\ i > k => Len(WritesOf(k)) = 1
                    /\ \A j \in (k + 1)..N : ExistsOf(j) = <<>>
                    /\ \A j \in (k + 1)..N : i > j => Len(WritesOf(j)) = 1
                    /\ Returned =>
                          /\ failed = Cardinality(FailedWrites)
                          /\ \A j \in k..N : Len(WritesOf(j)) = 1

C36_Witness ==
    /\ InteractiveRun /\ Returned /\ N = 3
    /\ Len(prompts) = 1 /\ prompts[1].selection = "Yes to all remaining"
    /\ WriteFailed(1)
    /\ WritesOf(2) = <<NoError>> /\ WritesOf(3) = <<NoError>>
    /\ failed = 1 /\ imported = 2

\* The export command has written its file.
Written ==
    /\ exportpc = "returned"
    /\ filteredPaths # <<>> /\ ~exportDryRun
    /\ exportIdx > Len(filteredPaths)
\* The number of the first n fetches that succeeded.
Successes(n) == Cardinality({m \in 1..n : fetched[m]})

\* C39: after any sequence of AddSecret calls on a file made by
\* NewExportFile, metadata.total_secrets is the number of secrets and the
\* secrets are in insertion order; the export command passes over every
\* secret whose fetch fails without stopping, so the file it writes holds
\* exactly the secrets fetched with success, in listing order, and passes
\* the total_secrets check of Validate.
C39_ExportFileTotals ==
    /\ outFile.Metadata.TotalSecrets = Len(outFile.Secrets)
    /\ Len(outFile.Secrets) = Successes(Len(fetched))
    /\ errCount = Len(fetched) - Successes(Len(fetched))
    /\ \A n \in DOMAIN fetched :
          /\ n <= Len(filteredPaths)
          /\ fetched[n] =>
                outFile.Secrets[Successes(n)] = SourceGet(filteredPaths[n])
    /\ exportpc = "fetch" => Len(fetched) = exportIdx - 1
    /\ Written =>
          /\ Len(fetched) = Len(filteredPaths)
          /\ Validate(outFile) = NoError

C39_Witness ==
    /\ Written
    /\ Len(filteredPaths) = 3
    /\ fetched = <<TRUE, FALSE, TRUE>>
    /\ outFile.Metadata.TotalSecrets = 2
    /\ errCount = 1

\* ------------------------------------------------------------ Source.Export
\* `const workers = 5`
workers == 5
SrcWorkers == 1..workers

\* What Source.Export leaves alone: the import, list and export commands.
notAdapterVars == <<importVars, filterFlags, listVars, exportVars>>

\* A step of a goroutine of Export; a panic ends the process.
Alive == panicked = {}

\* An error on errChan is carried as the number of the path whose Get failed,
\* the error of s.List as 0.
ListError == 0

\* Lines 264-273 and 276-302: s.List; its error is sent on errChan (empty,
\* capacity 1) and the goroutine returns into its deferred closes; else the
\* five workers are started.
ExportList ==
    /\ Alive
    /\ adapterpc = "list"
    /\ \E ok \in BOOLEAN :
          IF ~ok
          THEN /\ errChan' = Append(errChan, ListError)
               /\ adapterpc' = "closeErrChan"
               /\ UNCHANGED <<srcInfos, srcIdx, srcWorkers, srcWg, gets>>
          ELSE /\ srcInfos' = SourceList(ListPatterns(exportIncludes))
               /\ srcIdx' = 1
               /\ srcWorkers' = [w \in SrcWorkers |-> [pc |-> "recv", path |-> 0]]
               /\ srcWg' = workers
               /\ gets' = [n \in DOMAIN srcInfos' |-> <<>>]
               /\ adapterpc' = "dispatch"
               /\ errChan' = errChan
    /\ UNCHANGED <<notAdapterVars, pathChanClosed, secretChanClosed,
                   errChanClosed, srcCtxDone, delivered, received, dropped,
                   panicked>>

\* Lines 305-307 with line 285: `pathChan <- info.Path` meets the receive of
\* a worker that ranges over the unbuffered pathChan.
Dispatch(w) ==
    /\ Alive
    /\ adapterpc = "dispatch"
    /\ srcIdx <= Len(srcInfos)
    /\ w \in DOMAIN srcWorkers
    /\ srcWorkers[w].pc = "recv"
    /\ srcWorkers' = [srcWorkers EXCEPT ![w] = [pc |-> "get", path |-> srcIdx]]
    /\ srcIdx' = srcIdx + 1
    /\ UNCHANGED <<notAdapterVars, adapterpc, srcInfos, srcWg, pathChanClosed,
                   secretChanClosed, errChanClosed, errChan, srcCtxDone, gets,
                   delivered, received, dropped, panicked>>

\* Lines 308-310: the dispatching select takes `<-ctx.Done()`: pathChan is
\* closed and the goroutine returns into its deferred closes, without
\* wg.Wait().
DispatchCancelled ==
    /\ Alive
    /\ adapterpc = "dispatch"
    /\ srcIdx <= Len(srcInfos)
    /\ srcCtxDone
    /\ pathChanClosed' = TRUE
    /\ adapterpc' = "closeErrChan"
    /\ UNCHANGED <<notAdapterVars, srcInfos, srcIdx, srcWorkers, srcWg,
                   secretChanClosed, errChanClosed, errChan, srcCtxDone, gets,
                   delivered, received, dropped, panicked>>

\* Line 313: close(pathChan) after the last path.
ClosePathChan ==
    /\ Alive
    /\ adapterpc = "dispatch"
    /\ srcIdx > Len(srcInfos)
    /\ pathChanClosed' = TRUE
    /\ adapterpc' = "wait"
    /\ UNCHANGED <<notAdapterVars, srcInfos, srcIdx, srcWorkers, srcWg,
                   secretChanClosed, errChanClosed, errChan, srcCtxDone, gets,
                   delivered, received, dropped, panicked>>

\* Line 316: wg.Wait().
WaitWorkers ==
    /\ Alive
    /\ adapterpc = "wait"
    /\ srcWg = 0
    /\ adapterpc' = "closeErrChan"
    /\ UNCHANGED <<notAdapterVars, srcInfos, srcIdx, srcWorkers, srcWg,
                   pathChanClosed, secretChanClosed, errChanClosed, errChan,
                   srcCtxDone, gets, delivered, received, dropped, panicked>>

\* Line 266: the deferred close(errChan), the first to run.
CloseErrChan ==
    /\ Alive
    /\ adapterpc = "closeErrChan"
    /\ errChanClosed' = TRUE
    /\ adapterpc' = "closeSecretChan"
    /\ UNCHANGED <<notAdapterVars, srcInfos, srcIdx, srcWorkers, srcWg,
                   pathChanClosed, secretChanClosed, errChan, srcCtxDone, gets,
                   delivered, received, dropped, panicked>>

\* Line 265: the deferred close(secretChan).
CloseSecretChan ==
    /\ Alive
    /\ adapterpc = "closeSecretChan"
    /\ secretChanClosed' = TRUE
    /\ adapterpc' = "done"
    /\ UNCHANGED <<notAdapterVars, srcInfos, srcIdx, srcWorkers, srcWg,
                   pathChanClosed, errChanClosed, errChan, srcCtxDone, gets,
                   delivered, received, dropped, panicked>>

\* Lines 284-285: the range over pathChan ends when it is closed; wg.Done().
SourceWorkerExit(w) ==
    /\ Alive
    /\ w \in DOMAIN srcWorkers
    /\ srcWorkers[w].pc = "recv"
    /\ pathChanClosed
    /\ srcWorkers' = [srcWorkers EXCEPT ![w].pc = "done"]
    /\ srcWg' = srcWg - 1
    /\ UNCHANGED <<notAdapterVars, adapterpc, srcInfos, srcIdx, pathChanClosed,
                   secretChanClosed, errChanClosed, errChan, srcCtxDone, gets,
                   delivered, received, dropped, panicked>>

\* Line 286: s.Get(ctx, path) returns the secret or an error.
SourceWorkerGet(w) ==
    /\ Alive
    /\ w \in DOMAIN srcWorkers
    /\ srcWorkers[w].pc = "get"
    /\ \E ok \in BOOLEAN :
          /\ gets' = [gets EXCEPT ![srcWorkers[w].path] = Append(@, ok)]
          /\ srcWorkers' = [srcWorkers EXCEPT
                              ![w].pc = IF ok THEN "sendSecret" ELSE "sendErr"]
    /\ UNCHANGED <<notAdapterVars, adapterpc, srcInfos, srcIdx, srcWg,
                   pathChanClosed, secretChanClosed, errChanClosed, errChan,
                   srcCtxDone, delivered, received, dropped, panicked>>

\* A worker that returns after a failed Get instead of taking the next path.
SourceWorkerSendErrReturns(w) ==
    /\ Alive
    /\ w \in DOMAIN srcWorkers
    /\ srcWorkers[w].pc = "sendErr"
    /\ IF errChanClosed
       THEN /\ panicked' = panicked \cup {"errChan"}
            /\ UNCHANGED <<errChan, dropped, srcWorkers, srcWg>>
       ELSE /\ IF Len(errChan) < 1
               THEN /\ errChan' = Append(errChan, srcWorkers[w].path)
                    /\ dropped' = dropped
               ELSE /\ dropped' = dropped + 1
                    /\ errChan' = errChan
            /\ srcWorkers' = [srcWorkers EXCEPT ![w] = [pc |-> "done", path |-> 0]]
            /\ srcWg' = srcWg - 1
            /\ panicked' = panicked
    /\ UNCHANGED <<notAdapterVars, adapterpc, srcInfos, srcIdx,
                   pathChanClosed, secretChanClosed, errChanClosed,
                   srcCtxDone, gets, delivered, received>>

\* Lines 287-293: `select { case errChan <- err: default: }`: the error is
\* buffered when errChan is empty and dropped when it is full; a send on the
\* closed errChan panics.
SourceWorkerSendErr(w) ==
    /\ Alive
    /\ w \in DOMAIN srcWorkers
    /\ srcWorkers[w].pc = "sendErr"
    /\ IF errChanClosed
       THEN /\ panicked' = panicked \cup {"errChan"}
            /\ UNCHANGED <<errChan, dropped, srcWorkers>>
       ELSE /\ IF Len(errChan) < 1
               THEN /\ errChan' = Append(errChan, srcWorkers[w].path)
                    /\ dropped' = dropped
               ELSE /\ dropped' = dropped + 1
                    /\ errChan' = errChan
            /\ srcWorkers' = [srcWorkers EXCEPT ![w] = [pc |-> "recv", path |-> 0]]
            /\ panicked' = panicked
    /\ UNCHANGED <<notAdapterVars, adapterpc, srcInfos, srcIdx, srcWg,
                   pathChanClosed, secretChanClosed, errChanClosed,
                   srcCtxDone, gets, delivered, received>>

\* Lines 295-296: `case secretChan <- secret` meets the caller's receive; a
\* send on the closed secretChan panics.
SourceWorkerSendSecret(w) ==
    /\ Alive
    /\ w \in DOMAIN srcWorkers
    /\ srcWorkers[w].pc = "sendSecret"
    /\ IF secretChanClosed
       THEN /\ panicked' = panicked \cup {"secretChan"}
            /\ UNCHANGED <<delivered, srcWorkers>>
       ELSE /\ delivered' = Append(delivered, srcWorkers[w].path)
            /\ srcWorkers' = [srcWorkers EXCEPT ![w] = [pc |-> "recv", path |-> 0]]
            /\ panicked' = panicked
    /\ UNCHANGED <<notAdapterVars, adapterpc, srcInfos, srcIdx, srcWg,
                   pathChanClosed, secretChanClosed, errChanClosed, errChan,
                   srcCtxDone, gets, received, dropped>>

\* Lines 297-298: the same select takes `<-ctx.Done()`: the worker returns;
\* wg.Done().
SourceWorkerCtxDone(w) ==
    /\ Alive
    /\ w \in DOMAIN srcWorkers
    /\ srcWorkers[w].pc = "sendSecret"
    /\ srcCtxDone
    /\ srcWorkers' = [srcWorkers EXCEPT ![w].pc = "done"]
    /\ srcWg' = srcWg - 1
    /\ UNCHANGED <<notAdapterVars, adapterpc, srcInfos, srcIdx, pathChanClosed,
                   secretChanClosed, errChanClosed, errChan, srcCtxDone, gets,
                   delivered, received, dropped, panicked>>

\* The caller receives an error from errChan.
CallerRecvErr ==
    /\ Alive
    /\ errChan # <<>>
    /\ received' = Append(received, Head(errChan))
    /\ errChan' = Tail(errChan)
    /\ UNCHANGED <<notAdapterVars, adapterpc, srcInfos, srcIdx, srcWorkers,
                   srcWg, pathChanClosed, secretChanClosed, errChanClosed,
                   srcCtxDone, gets, delivered, dropped, panicked>>

\* The caller cancels the context it gave to Export.
CallerCancel ==
    /\ Alive
    /\ adapterpc \in {"list", "dispatch", "wait"}
    /\ ~srcCtxDone
    /\ srcCtxDone' = TRUE
    /\ UNCHANGED <<notAdapterVars, adapterpc, srcInfos, srcIdx, srcWorkers,
                   srcWg, pathChanClosed, secretChanClosed, errChanClosed,
                   errChan, gets, delivered, received, dropped, panicked>>

\* Export is called on a source that lists the first secrets of Names, with
\* the pattern "**"; the commands are not run.
InitSourceExport ==
    /\ importOverwriteAll = FALSE
    /\ importInteractive = FALSE
    /\ importSkipExisting = TRUE
    /\ importDryRun = FALSE
    /\ importParallelism = 1
    /\ importPathPrefix \in RawPrefixes
    /\ exportFile = ExportFile(Version, "aws", 1, 0, <<>>)
    /\ InitRun
    /\ \A d \in AllDest : store[d] = Absent
    /\ listIncludes = <<>> /\ listExcludes = <<>>
    /\ exportIncludes = <<>> /\ exportExcludes = <<>>
    /\ exportDryRun = FALSE
    /\ \E n \in 0..Len(Names) : secretList = SubSeq(Names, 1, n)
    /\ listpc = "off" /\ listInfos = <<>>
    /\ exportpc = "off" /\ filteredPaths = <<>> /\ exportIdx = 0
    /\ outFile = ExportFile("", "", 0, 0, <<>>) /\ fetched = <<>>
    /\ errCount = 0
    /\ adapterpc = "list"
    /\ srcInfos = <<>> /\ srcIdx = 0
    /\ srcWorkers = <<>> /\ srcWg = 0
    /\ pathChanClosed = FALSE
    /\ secretChanClosed = FALSE /\ errChanClosed = FALSE
    /\ errChan = <<>>
    /\ srcCtxDone = FALSE
    /\ gets = <<>> /\ delivered = <<>> /\ received = <<>>
    /\ dropped = 0
    /\ panicked = {}

Dispatcher ==
    \/ ExportList
    \/ (\E w \in SrcWorkers : Dispatch(w))
    \/ DispatchCancelled
    \/ ClosePathChan
    \/ WaitWorkers
    \/ CloseErrChan
    \/ CloseSecretChan

SourceWorker(w) ==
    \/ SourceWorkerExit(w)
    \/ SourceWorkerGet(w)
    \/ SourceWorkerSendErr(w)
    \/ SourceWorkerSendSecret(w)
    \/ SourceWorkerCtxDone(w)

NextSourceExport ==
    \/ Dispatcher
    \/ (\E w \in SrcWorkers : SourceWorker(w))
    \/ CallerRecvErr
    \/ CallerCancel

\* The Go scheduler runs every goroutine that can take a step, every Get
\* returns, and the caller consumes both channels; nothing makes the caller
\* cancel.
SourceFairness ==
    /\ WF_vars(Dispatcher)
    /\ \A w \in SrcWorkers : WF_vars(SourceWorker(w))
    /\ WF_vars(CallerRecvErr)

SpecSourceExport ==
    InitSourceExport /\ [][NextSourceExport]_vars /\ SourceFairness

\* C37: Export never sends on secretChan or errChan after it has closed
\* them, in every interleaving of its workers with the dispatching
\* goroutine, also when the context is cancelled while paths are still
\* being dispatched.
C37_NoSendOnClosed == panicked = {}

\* C37 for a context that is never cancelled.
C37_NeverCancelled == ~srcCtxDone => C37_NoSendOnClosed

BothClosed == secretChanClosed /\ errChanClosed
Occurrences(seq, x) == Cardinality({n \in DOMAIN seq : seq[n] = x})
FailedGets == {n \in DOMAIN gets : gets[n] # <<>> /\ ~gets[n][1]}
\* What holds of an Export whose context is not cancelled.
ExportDelivers ==
    /\ Len(errChan) <= 1
    /\ \A n \in DOMAIN gets :
          /\ Len(gets[n]) <= 1
          /\ Occurrences(delivered, n) <= 1
          /\ Occurrences(delivered, n) = 1 => gets[n] = <<TRUE>>
    /\ dropped > 0 => FailedGets # {}
    /\ \A w \in DOMAIN srcWorkers :
          srcWorkers[w].pc = "done" => pathChanClosed
    /\ BothClosed =>
          /\ DOMAIN gets = DOMAIN srcInfos
          /\ \A n \in DOMAIN gets :
                /\ Len(gets[n]) = 1
                /\ gets[n][1] <=> Occurrences(delivered, n) = 1
          /\ Cardinality(FailedGets) =
                dropped + Cardinality({n \in DOMAIN errChan : errChan[n] # ListError})
                        + Cardinality({n \in DOMAIN received :
                                          received[n] # ListError})

\* C38: for a caller that consumes both channels and never cancels, Export
\* eventually closes both channels; by then every listed path has been
\* fetched exactly once and every successful fetch has been delivered
\* exactly once on the secret channel; a failed fetch does not stop the
\* other paths from being fetched; at most one fetch error is buffered at a
\* time, further errors being dropped while the error channel is full.
C38_ExportCompletes ==
    /\ <>(srcCtxDone \/ BothClosed)
    /\ [](~srcCtxDone => ExportDelivers)

C38_Witness ==
    /\ ~srcCtxDone /\ BothClosed
    /\ Len(srcInfos) = 3
    /\ gets = <<<<FALSE>>, <<TRUE>>, <<FALSE>>>>
    /\ delivered = <<2>>
    /\ dropped = 1
    /\ received = <<1>>


====
